---- MODULE Spec2Model ----
(***************************************************************************)
(* A model of the credentialed connection layer of kiro2api-rs: the        *)
(* account state machine (src/src/pool/account.rs), the account pool that  *)
(* selects among accounts, and the provider's token snapshot               *)
(* (src/src/kiro/provider.rs), the event-stream frame parser               *)
(* (src/src/kiro/parser/frame.rs) with the stream decoder around it, and   *)
(* the event model (src/src/kiro/model/events) with the SSE emitter that   *)
(* translates its events.                                                  *)
(*                                                                         *)
(* Time is counted in whole minutes.  Option<T> is a sequence of length    *)
(* zero (None) or one (Some(x)).                                           *)
(***************************************************************************)
EXTENDS Integers, Sequences, FiniteSets, TLC

\* ---------------------------------------------------------------- bounds
MaxTime == 7
MaxCount == 2
NumAccounts == 2
NumTasks == 2
MaxAcquires == 3
NumCallers == 3

\* chrono::Duration::minutes(5) in Account::record_error
CooldownMinutes == 5

\* ---------------------------------------------------------------- Option
None == << >>
Some(x) == << x >>
IsSome(o) == o /= None
Unwrap(o) == o[1]

\* ------------------------------------------------- account.rs: the types
AccountStatus == {"Active", "Cooldown", "Invalid", "Disabled"}

\* Account::new: Active, counters zero, no last use, no cooldown.
AccountNew ==
    [ status         |-> "Active",
      request_count  |-> 0,
      error_count    |-> 0,
      last_used_at   |-> None,
      cooldown_until |-> None ]

\* is_available with the comparison made strict.
is_available_strict(a, t) ==
    CASE a.status = "Active"   -> TRUE
      [] a.status = "Cooldown" ->
            IF IsSome(a.cooldown_until) THEN t > Unwrap(a.cooldown_until) ELSE TRUE
      [] OTHER                 -> FALSE

\* is_available that takes every Cooldown account as available.
is_available_any_cooldown(a, t) == a.status \in {"Active", "Cooldown"}

\* Account::is_available at clock reading t.
is_available(a, t) ==
    CASE a.status = "Active"   -> TRUE
      [] a.status = "Cooldown" ->
            IF IsSome(a.cooldown_until) THEN t >= Unwrap(a.cooldown_until) ELSE TRUE
      [] OTHER                 -> FALSE

\* record_use that reactivates a Cooldown account without looking at the clock.
record_use_eager(a, t) ==
    LET b == [a EXCEPT !.request_count = @ + 1, !.last_used_at = Some(t)]
    IN  IF b.status = "Cooldown"
        THEN [b EXCEPT !.status = "Active", !.cooldown_until = None]
        ELSE b

\* record_use that also reserves the account for five minutes.
record_use_reserving(a, t) ==
    [a EXCEPT !.request_count = @ + 1, !.last_used_at = Some(t),
              !.status = "Cooldown", !.cooldown_until = Some(t + CooldownMinutes)]

\* Account::record_use at clock reading t.
record_use(a, t) ==
    LET b == [a EXCEPT !.request_count = @ + 1, !.last_used_at = Some(t)]
    IN  IF b.status = "Cooldown" /\ is_available(b, t)
        THEN [b EXCEPT !.status = "Active", !.cooldown_until = None]
        ELSE b

\* record_error that takes every error for a rate limit.
record_error_always_cooldown(a, is_rate_limit, t) ==
    [a EXCEPT !.error_count = @ + 1, !.status = "Cooldown",
              !.cooldown_until = Some(t + CooldownMinutes)]

\* record_error that keeps the deadline of an account already in Cooldown.
record_error_keeps_deadline(a, is_rate_limit, t) ==
    LET b == [a EXCEPT !.error_count = @ + 1]
    IN  IF is_rate_limit
        THEN [b EXCEPT !.status = "Cooldown",
                       !.cooldown_until = IF a.status = "Cooldown" /\ IsSome(@)
                                          THEN @ ELSE Some(t + CooldownMinutes)]
        ELSE b

\* record_error that enters Cooldown but does not set the deadline.
record_error_no_deadline(a, is_rate_limit, t) ==
    LET b == [a EXCEPT !.error_count = @ + 1]
    IN  IF is_rate_limit THEN [b EXCEPT !.status = "Cooldown"] ELSE b

\* Account::record_error at clock reading t.
record_error(a, is_rate_limit, t) ==
    LET b == [a EXCEPT !.error_count = @ + 1]
    IN  IF is_rate_limit
        THEN [b EXCEPT !.status = "Cooldown",
                       !.cooldown_until = Some(t + CooldownMinutes)]
        ELSE b

\* Account::mark_invalid
mark_invalid(a) == [a EXCEPT !.status = "Invalid"]

\* enable that activates an account whatever its status.
enable_any_status(a) == [a EXCEPT !.status = "Active"]

\* Account::enable
enable(a) == IF a.status = "Disabled" THEN [a EXCEPT !.status = "Active"] ELSE a

\* Account::disable
disable(a) == [a EXCEPT !.status = "Disabled"]

\* ------------------------------------------------------------ the state
VARIABLES
    now,      \* the clock (Utc::now()), in minutes
    acct,     \* one Account driven through its public methods
    lastOp,   \* the last method called on acct: its name, the clock then, the status before
    accounts, \* AccountPool: the ordered list of accounts, by position
    strategy, \* AccountPool: the selection strategy
    cursor,   \* AccountPool: the round-robin cursor
    poolLock, \* the task inside the pool's critical section, if any
    tpc,      \* per request task: "idle", "selecting" or "holding"
    seen,     \* per request task: the cursor value it read in acquire()
    handle,   \* per request task: the account its handle is for, if it holds one
    outcomes, \* per account: how many outcome reports handles have made on it
    lastOutcome, \* whether the latest handle release was a cancellation
    rrAvail,  \* the available set at the latest successful acquire()
    rrLog,    \* the accounts returned since the available set was last different
    acquires, \* how many acquire() calls have completed
    tmLock,   \* KiroProvider.token_manager: the caller holding the Mutex, if any
    tmToken,  \* TokenManager: the access token held, by generation (0: the first)
    tmExpired, \* TokenManager: the token held is missing, expired or within the margin
    cpc,      \* per caller of acquire_token_snapshot: where it is
    got,      \* per caller: the token it was given, if any
    refreshCalls, \* refresh calls started
    refreshFails, \* refresh calls that failed
    startExpired, \* whether the token was expired when the callers arrived
    fpc,      \* parse_frame harness: "start", "built" or "parsed"
    buffer,   \* the bytes handed to parse_frame
    whole,    \* the well-formed frame and what follows it, when buffer comes from one
    sent,     \* the frame that was encoded (headers, payload, total_length), if any
    how,      \* what was done to the buffer: intact, flipped, truncated, completed, arbitrary
    result,   \* what parse_frame returned, if it was called
    pending,  \* stream decoder harness: the bytes of the response body not yet fed
    dbuf,     \* EventStreamDecoder: the byte buffer
    yielded,  \* the frames next_frame() has returned, in order
    dsent,    \* the frames the response body was made of, in order
    dlast,    \* what the latest decoder call was: "feed", "frame", "none" or "error"
    dheld,    \* a next_frame() call has found only a part of a prelude in the buffer
    upLog,    \* SSE emitter: the upstream frames taken so far, in arrival order
    upEnded,  \* the upstream body has ended
    estate,   \* the converter state: Idle, Between, InText, InToolUse, MessageEnded
    eindex,   \* the index of the latest content block opened (-1: none yet)
    etool,    \* InToolUse: the toolUseId of the open block
    lastClosed, \* the type of the latest block closed: "none", "text" or "tool_use"
    sse,      \* the SSE events emitted, in order
    httpStatus, \* the HTTP status sent to the client, once the first SSE frame is flushed
    call,     \* a function under test: its name and the arguments it is called with
    ret       \* what the function under test returned, once it was called

acctVars == << acct, lastOp >>
poolVars == << accounts, strategy, cursor, poolLock, tpc, seen, handle,
               outcomes, lastOutcome, rrAvail, rrLog, acquires >>
tokVars == << tmLock, tmToken, tmExpired, cpc, got, refreshCalls, refreshFails,
              startExpired >>
frameVars == << fpc, buffer, whole, sent, how, result >>
decVars == << pending, dbuf, yielded, dsent, dlast, dheld >>
sseVars == << upLog, upEnded, estate, eindex, etool, lastClosed, sse, httpStatus >>
fnVars == << call, ret >>
vars == << now, acctVars, poolVars, tokVars, frameVars, decVars, sseVars, fnVars >>

\* What an account step leaves alone, and what a pool step leaves alone.
notAcct == << poolVars, tokVars, frameVars, decVars, sseVars, fnVars >>
notPool == << acctVars, tokVars, frameVars, decVars, sseVars, fnVars >>
notTok == << now, acctVars, poolVars, frameVars, decVars, sseVars, fnVars >>
notFrame == << now, acctVars, poolVars, tokVars, decVars, sseVars, fnVars >>
notDec == << now, acctVars, poolVars, tokVars, frameVars, sseVars, fnVars >>
notSse == << now, acctVars, poolVars, tokVars, frameVars, decVars, fnVars >>
notFn == << now, acctVars, poolVars, tokVars, frameVars, decVars, sseVars >>

\* ------------------------------------------------ the pool (spec 4.9)
Accounts == 1 .. NumAccounts
Tasks == 1 .. NumTasks
Strategies == {"RoundRobin", "Random", "LeastUsed"}

\* The pool lock is free.
pool_lock_free_always == TRUE
pool_lock_free == poolLock = None

\* acquire() step 1: the available accounts, in list order.
AvailableAccounts(accs, t) ==
    LET Order == [i \in 1 .. NumAccounts |-> i]
        Test(i) == is_available(accs[i], t)
    IN  SelectSeq(Order, Test)

\* Option<DateTime> ordering: None sorts before every Some.
LastUsedKey(a) == IF IsSome(a.last_used_at) THEN Unwrap(a.last_used_at) + 1 ELSE 0

\* LeastUsed: a has fewer requests than b, or as many and an earlier last use.
LessUsed(a, b) ==
    \/ a.request_count < b.request_count
    \/ /\ a.request_count = b.request_count
       /\ LastUsedKey(a) < LastUsedKey(b)

\* acquire() step 3: the accounts the strategy may pick from avail, with
\* the cursor value cur that the caller read.
SelectCandidates(strat, avail, cur, accs) ==
    CASE strat = "RoundRobin" -> { avail[(cur % Len(avail)) + 1] }
      [] strat = "Random"     -> { avail[i] : i \in 1 .. Len(avail) }
      [] strat = "LeastUsed"  ->
            LET Best == { i \in 1 .. Len(avail) :
                            \A j \in 1 .. Len(avail) :
                                ~ LessUsed(accs[avail[j]], accs[avail[i]]) }
                First == CHOOSE i \in Best : \A j \in Best : i <= j
            IN  { avail[First] }

\* RoundRobin advances the cursor from the value read; the others keep it.
cursor_after(strat, cur, old) == IF strat = "RoundRobin" THEN cur + 1 ELSE old

\* The window of acquisitions kept for the round-robin law.
LogWindow == NumAccounts + 1
LogPush(log, e) ==
    LET l == Append(log, e)
    IN  IF Len(l) > LogWindow THEN Tail(l) ELSE l

AcctFresh ==
    /\ acct = AccountNew
    /\ lastOp = [name |-> "new", at |-> 0, pre |-> "Active"]

PoolFresh(strat) ==
    /\ accounts = [a \in Accounts |-> AccountNew]
    /\ strategy = strat
    /\ cursor = 0
    /\ poolLock = None
    /\ tpc = [t \in Tasks |-> "idle"]
    /\ seen = [t \in Tasks |-> 0]
    /\ handle = [t \in Tasks |-> None]
    /\ outcomes = [a \in Accounts |-> 0]
    /\ lastOutcome = "none"
    /\ rrAvail = {}
    /\ rrLog = << >>
    /\ acquires = 0

Callers == 1 .. NumCallers

TokFresh(expired) ==
    /\ tmLock = None
    /\ tmToken = 0
    /\ tmExpired = expired
    /\ cpc = [c \in Callers |-> "idle"]
    /\ got = [c \in Callers |-> None]
    /\ refreshCalls = 0
    /\ refreshFails = 0
    /\ startExpired = expired

FrameFresh ==
    /\ fpc = "start"
    /\ buffer = << >>
    /\ whole = << >>
    /\ sent = None
    /\ how = [kind |-> "none", at |-> 0]
    /\ result = None

SseFresh ==
    /\ upLog = << >>
    /\ upEnded = FALSE
    /\ estate = "Idle"
    /\ eindex = -1
    /\ etool = None
    /\ lastClosed = "none"
    /\ sse = << >>
    /\ httpStatus = None

FnFresh ==
    /\ call = None
    /\ ret = None

\* The parts of the state a specification does not drive.
RestFresh ==
    /\ FrameFresh
    /\ pending = << >> /\ dbuf = << >> /\ yielded = << >> /\ dsent = << >>
    /\ dlast = "none" /\ dheld = FALSE
    /\ SseFresh
    /\ FnFresh

\* ------------------------------------------- one account, any call order
AcctInit ==
    /\ now = 0
    /\ AcctFresh
    /\ PoolFresh("RoundRobin")
    /\ TokFresh(FALSE)
    /\ RestFresh

\* The clock advances; nothing is called.
AcctTick ==
    /\ now < MaxTime
    /\ now' = now + 1
    /\ UNCHANGED << acct, lastOp, notAcct >>

AcctRecordUse ==
    /\ acct.request_count < MaxCount
    /\ acct' = record_use(acct, now)
    /\ lastOp' = [name |-> "record_use", at |-> now, pre |-> acct.status]
    /\ UNCHANGED << now, notAcct >>

AcctRecordError(is_rate_limit) ==
    /\ acct.error_count < MaxCount
    /\ acct' = record_error(acct, is_rate_limit, now)
    /\ lastOp' = [name |-> IF is_rate_limit THEN "record_error_rate_limit"
                                            ELSE "record_error",
                  at |-> now, pre |-> acct.status]
    /\ UNCHANGED << now, notAcct >>

AcctMarkInvalid ==
    /\ acct' = mark_invalid(acct)
    /\ lastOp' = [name |-> "mark_invalid", at |-> now, pre |-> acct.status]
    /\ UNCHANGED << now, notAcct >>

AcctEnable ==
    /\ acct' = enable(acct)
    /\ lastOp' = [name |-> "enable", at |-> now, pre |-> acct.status]
    /\ UNCHANGED << now, notAcct >>

AcctDisable ==
    /\ acct' = disable(acct)
    /\ lastOp' = [name |-> "disable", at |-> now, pre |-> acct.status]
    /\ UNCHANGED << now, notAcct >>

AcctNext ==
    \/ AcctTick
    \/ AcctRecordUse
    \/ \E is_rate_limit \in BOOLEAN : AcctRecordError(is_rate_limit)
    \/ AcctMarkInvalid
    \/ AcctEnable
    \/ AcctDisable

SpecAccount == AcctInit /\ [][AcctNext]_vars

\* ------------------------------------------------------ the pool at work
PoolInit ==
    /\ now = 0
    /\ AcctFresh
    /\ \E strat \in Strategies : PoolFresh(strat)
    /\ TokFresh(FALSE)
    /\ RestFresh

\* The pool is looked at once per cooldown period.
PoolTick ==
    /\ now + CooldownMinutes <= MaxTime
    /\ now' = now + CooldownMinutes
    /\ UNCHANGED << poolVars, notPool >>

\* acquire(): task t enters the critical section and reads the cursor.
PoolAcquireBegin(t) ==
    /\ tpc[t] = "idle"
    /\ acquires < MaxAcquires
    /\ pool_lock_free
    /\ poolLock' = Some(t)
    /\ tpc' = [tpc EXCEPT ![t] = "selecting"]
    /\ seen' = [seen EXCEPT ![t] = cursor]
    /\ UNCHANGED << now, accounts, strategy, cursor, handle, outcomes,
                    lastOutcome, rrAvail, rrLog, acquires, notPool >>

\* acquire() steps 1-5 with an available account: select, record_use,
\* advance the cursor, hand out the handle, leave the critical section.
PoolAcquireSelect(t) ==
    /\ tpc[t] = "selecting"
    /\ LET avail == AvailableAccounts(accounts, now)
           availSet == { avail[i] : i \in 1 .. Len(avail) }
       IN  /\ Len(avail) > 0
           /\ \E a \in SelectCandidates(strategy, avail, seen[t], accounts) :
                /\ accounts' = [accounts EXCEPT ![a] = record_use(@, now)]
                /\ handle' = [handle EXCEPT ![t] = Some(a)]
                /\ rrLog' = IF strategy /= "RoundRobin" THEN rrLog
                            ELSE IF availSet = rrAvail THEN LogPush(rrLog, a)
                            ELSE << a >>
           /\ rrAvail' = IF strategy = "RoundRobin" THEN availSet ELSE rrAvail
    /\ cursor' = cursor_after(strategy, seen[t], cursor)
    /\ tpc' = [tpc EXCEPT ![t] = "holding"]
    /\ seen' = [seen EXCEPT ![t] = 0]
    /\ poolLock' = None
    /\ acquires' = acquires + 1
    /\ UNCHANGED << now, strategy, outcomes, lastOutcome, notPool >>

\* acquire() step 2: no account is available, NoAvailableAccount.
PoolAcquireFail(t) ==
    /\ tpc[t] = "selecting"
    /\ Len(AvailableAccounts(accounts, now)) = 0
    /\ tpc' = [tpc EXCEPT ![t] = "idle"]
    /\ seen' = [seen EXCEPT ![t] = 0]
    /\ poolLock' = None
    /\ acquires' = acquires + 1
    /\ UNCHANGED << now, accounts, strategy, cursor, handle, outcomes,
                    lastOutcome, rrAvail, rrLog, notPool >>

\* The handle of task t is dropped without any report.
release_silently(t, kind, accs) ==
    /\ accounts' = accounts
    /\ tpc' = [tpc EXCEPT ![t] = "idle"]
    /\ handle' = [handle EXCEPT ![t] = None]
    /\ lastOutcome' = (IF kind = "cancelled" THEN "cancelled" ELSE "reported")
    /\ UNCHANGED << now, strategy, cursor, poolLock, seen, outcomes,
                    rrAvail, rrLog, acquires, notPool >>

\* The handle of task t is released with one report of the given kind on
\* its account, which leaves the account as accs gives it.
Release(t, kind, accs) ==
    /\ accounts' = accs
    /\ tpc' = [tpc EXCEPT ![t] = "idle"]
    /\ handle' = [handle EXCEPT ![t] = None]
    /\ outcomes' = [outcomes EXCEPT ![Unwrap(handle[t])] = @ + 1]
    /\ lastOutcome' = (IF kind = "cancelled" THEN "cancelled" ELSE "reported")
    /\ UNCHANGED << now, strategy, cursor, poolLock, seen,
                    rrAvail, rrLog, acquires, notPool >>

\* The upstream call succeeded: report_success().
PoolReportSuccess(t) ==
    /\ tpc[t] = "holding"
    /\ pool_lock_free
    /\ Release(t, "success", accounts)

\* The upstream call failed: report_error(is_rate_limit).
PoolReportError(t, is_rate_limit) ==
    /\ tpc[t] = "holding"
    /\ pool_lock_free
    /\ Release(t, IF is_rate_limit THEN "rate_limit" ELSE "error",
               [accounts EXCEPT
                  ![Unwrap(handle[t])] = record_error(@, is_rate_limit, now)])

\* The token refresh failed: the account is marked Invalid and the request
\* fails, which runs the failure hook.
PoolTokenRefreshFails(t) ==
    /\ tpc[t] = "holding"
    /\ pool_lock_free
    /\ Release(t, "token_refresh_failed",
               [accounts EXCEPT
                  ![Unwrap(handle[t])] = record_error(mark_invalid(@), FALSE, now)])

\* The client disconnected and the task was cancelled: the handle is
\* dropped and its failure hook runs.
PoolCancel(t) ==
    /\ tpc[t] = "holding"
    /\ pool_lock_free
    /\ Release(t, "cancelled",
               [accounts EXCEPT
                  ![Unwrap(handle[t])] = record_error(@, FALSE, now)])

PoolOutcome(t) ==
    \/ PoolReportSuccess(t)
    \/ \E is_rate_limit \in BOOLEAN : PoolReportError(t, is_rate_limit)
    \/ PoolTokenRefreshFails(t)
    \/ PoolCancel(t)

PoolNext ==
    \/ PoolTick
    \/ \E t \in Tasks : PoolAcquireBegin(t)
    \/ \E t \in Tasks : PoolAcquireSelect(t)
    \/ \E t \in Tasks : PoolAcquireFail(t)
    \/ \E t \in Tasks : PoolReportSuccess(t)
    \/ \E t \in Tasks, is_rate_limit \in BOOLEAN : PoolReportError(t, is_rate_limit)
    \/ \E t \in Tasks : PoolTokenRefreshFails(t)
    \/ \E t \in Tasks : PoolCancel(t)

SpecPool == PoolInit /\ [][PoolNext]_vars

\* Every acquire() returns and every held handle is released: the critical
\* section is O(1) work and the upstream call is bounded by the client's
\* timeout.
SpecPoolFair ==
    /\ SpecPool
    /\ \A t \in Tasks : WF_vars(PoolAcquireSelect(t) \/ PoolAcquireFail(t))
    /\ \A t \in Tasks : WF_vars(PoolOutcome(t))

\* Every clock reading the model can compare a deadline with.
Times == 0 .. (MaxTime + CooldownMinutes)

\* ----------------------------------------------------------------- C1
\* C1: a call of record_use, record_error (rate limit or not) or
\* mark_invalid on an account whose status is Invalid or Disabled leaves
\* the status as it was.
C1_TerminalKept ==
    [][ (AcctRecordUse \/ AcctMarkInvalid
            \/ \E is_rate_limit \in BOOLEAN : AcctRecordError(is_rate_limit))
        => (acct.status \in {"Invalid", "Disabled"} => acct'.status = acct.status)
      ]_vars

\* ----------------------------------------------------------------- C2
\* C2: in every reachable account state and at every time t, is_available
\* is true exactly when the status is Active, or the status is Cooldown and
\* cooldown_until <= t; so it is false for Invalid and Disabled.
C2_AvailableIff ==
    \A t \in Times :
        is_available(acct, t)
            <=> \/ acct.status = "Active"
                \/ /\ acct.status = "Cooldown"
                   /\ IsSome(acct.cooldown_until)
                   /\ Unwrap(acct.cooldown_until) <= t

\* A Cooldown account at the very minute its cooldown ends.
C2_Witness ==
    /\ acct.status = "Cooldown"
    /\ acct.cooldown_until = Some(now)
    /\ is_available(acct, now)

\* ----------------------------------------------------------------- C3
\* C3: after record_error(is_rate_limit = true) at time t, and while nothing
\* else is called, the status is Cooldown, cooldown_until is t + 5 minutes,
\* and the account is unavailable at every time in [t, t + 5 min) and
\* available at every time from t + 5 min on.
C3_CooldownWindow ==
    lastOp.name = "record_error_rate_limit" =>
        /\ acct.status = "Cooldown"
        /\ acct.cooldown_until = Some(lastOp.at + CooldownMinutes)
        /\ \A t \in Times :
              t >= lastOp.at =>
                (is_available(acct, t) <=> t >= lastOp.at + CooldownMinutes)

\* An Active account got a rate-limit error, five minutes passed with no
\* call, and it is available again.
C3_Witness ==
    /\ lastOp.name = "record_error_rate_limit"
    /\ lastOp.pre = "Active"
    /\ now >= lastOp.at + CooldownMinutes
    /\ is_available(acct, now)

\* ----------------------------------------------------------------- C8
\* C8: record_use adds exactly 1 to request_count, sets last_used_at to now,
\* never changes error_count, and changes status only for a Cooldown whose
\* deadline has passed, which becomes Active with cooldown_until cleared; in
\* every other case status and cooldown_until stay as they were.
C8_RecordUseFrame ==
    [][ AcctRecordUse =>
          /\ acct'.request_count = acct.request_count + 1
          /\ acct'.last_used_at = Some(now)
          /\ acct'.error_count = acct.error_count
          /\ IF /\ acct.status = "Cooldown"
                /\ IsSome(acct.cooldown_until)
                /\ Unwrap(acct.cooldown_until) <= now
             THEN acct'.status = "Active" /\ acct'.cooldown_until = None
             ELSE /\ acct'.status = acct.status
                  /\ acct'.cooldown_until = acct.cooldown_until
      ]_vars

\* record_use has just turned a Cooldown account Active.
C8_Witness ==
    /\ lastOp.name = "record_use"
    /\ lastOp.pre = "Cooldown"
    /\ acct.status = "Active"
    /\ acct.cooldown_until = None

\* --------------------------------------- the provider's token snapshot
\* tokio::sync::Mutex: lock() returns once no other task holds the guard.
tm_lock_free_always == TRUE
tm_lock_free == tmLock = None

\* The guard `tm` kept by the caller until its upstream call has returned.
guard_after_snapshot_held(c) == Some(c)

\* The guard `tm` is a local of acquire_token_snapshot: it is dropped when
\* the function returns the token and the two clones, and the mutex is free.
guard_after_snapshot(c) == None

TokInit ==
    /\ now = 0
    /\ AcctFresh
    /\ PoolFresh("RoundRobin")
    /\ \E expired \in BOOLEAN : TokFresh(expired)
    /\ RestFresh

\* acquire_token_snapshot: self.token_manager.lock().await
TokLock(c) ==
    /\ cpc[c] = "idle"
    /\ tm_lock_free
    /\ tmLock' = Some(c)
    /\ cpc' = [cpc EXCEPT ![c] = "locked"]
    /\ UNCHANGED << tmToken, tmExpired, got, refreshCalls, refreshFails,
                    startExpired, notTok >>

\* ensure_valid_token step 1: the token held is valid; it is returned, the
\* snapshot is taken and the guard is dropped.
TokCached(c) ==
    /\ cpc[c] = "locked"
    /\ ~ tmExpired
    /\ got' = [got EXCEPT ![c] = Some(tmToken)]
    /\ cpc' = [cpc EXCEPT ![c] = "snapshot"]
    /\ tmLock' = guard_after_snapshot(c)
    /\ UNCHANGED << tmToken, tmExpired, refreshCalls, refreshFails,
                    startExpired, notTok >>

\* ensure_valid_token step 2: the token is expired; the refresh request is
\* sent and awaited, the guard still held.
TokRefreshStart(c) ==
    /\ cpc[c] = "locked"
    /\ tmExpired
    /\ cpc' = [cpc EXCEPT ![c] = "refreshing"]
    /\ refreshCalls' = refreshCalls + 1
    /\ UNCHANGED << tmLock, tmToken, tmExpired, got, refreshFails,
                    startExpired, notTok >>

\* ensure_valid_token step 3: the refresh answered with a new token, which
\* is stored and returned; the guard is dropped.
TokRefreshOk(c) ==
    /\ cpc[c] = "refreshing"
    /\ tmToken' = tmToken + 1
    /\ tmExpired' = FALSE
    /\ got' = [got EXCEPT ![c] = Some(tmToken + 1)]
    /\ cpc' = [cpc EXCEPT ![c] = "snapshot"]
    /\ tmLock' = guard_after_snapshot(c)
    /\ UNCHANGED << refreshCalls, refreshFails, startExpired, notTok >>

\* The refresh failed: ensure_valid_token returns the error through `?`
\* and the guard is dropped; nothing is stored.
TokRefreshFail(c) ==
    /\ cpc[c] = "refreshing"
    /\ refreshFails' = refreshFails + 1
    /\ cpc' = [cpc EXCEPT ![c] = "failed"]
    /\ tmLock' = None
    /\ UNCHANGED << tmToken, tmExpired, got, refreshCalls, startExpired, notTok >>

\* call_api / call_api_stream: with the snapshot taken and the guard
\* dropped, the request is built and sent.
CallSend(c) ==
    /\ cpc[c] = "snapshot"
    /\ cpc' = [cpc EXCEPT ![c] = "sending"]
    /\ UNCHANGED << tmLock, tmToken, tmExpired, got, refreshCalls, refreshFails,
                    startExpired, notTok >>

\* The upstream answered: a success status returns the response, any other
\* status or a transport error returns an error.
CallAnswered(c, success) ==
    /\ cpc[c] = "sending"
    /\ cpc' = [cpc EXCEPT ![c] = IF success THEN "responded" ELSE "failed"]
    /\ UNCHANGED << tmLock, tmToken, tmExpired, got, refreshCalls, refreshFails,
                    startExpired, notTok >>

TokNext ==
    \/ \E c \in Callers : TokLock(c)
    \/ \E c \in Callers : TokCached(c)
    \/ \E c \in Callers : TokRefreshStart(c)
    \/ \E c \in Callers : TokRefreshOk(c)
    \/ \E c \in Callers : TokRefreshFail(c)
    \/ \E c \in Callers : CallSend(c)
    \/ \E c \in Callers, success \in BOOLEAN : CallAnswered(c, success)

SpecToken == TokInit /\ [][TokNext]_vars

\* Refresh calls awaiting their answer.
InFlight == { c \in Callers : cpc[c] = "refreshing" }

\* Callers whose acquire_token_snapshot returned a token.
Served == { c \in Callers : IsSome(got[c]) }

\* "Available" as the data model defines it: Active, or Cooldown with the
\* deadline reached.
AvailableBySpec(a, t) ==
    \/ a.status = "Active"
    \/ /\ a.status = "Cooldown"
       /\ IsSome(a.cooldown_until)
       /\ Unwrap(a.cooldown_until) <= t

\* ----------------------------------------------------------------- C4
\* C4: under every strategy acquire() returns only an account that is
\* available at the time of the call, never one whose cooldown has not
\* ended, and it fails with NoAvailableAccount exactly when no account is
\* available.
C4_AcquireAvailable ==
    [][ \A t \in Tasks :
          /\ PoolAcquireSelect(t) =>
                /\ IsSome(handle'[t])
                /\ AvailableBySpec(accounts[Unwrap(handle'[t])], now)
                /\ ~ ( /\ accounts[Unwrap(handle'[t])].status = "Cooldown"
                       /\ Unwrap(accounts[Unwrap(handle'[t])].cooldown_until) > now )
          /\ PoolAcquireFail(t) =>
                \A a \in Accounts : ~ AvailableBySpec(accounts[a], now)
          /\ ( /\ tpc[t] = "selecting"
               /\ tpc'[t] /= "selecting"
               /\ \E a \in Accounts : AvailableBySpec(accounts[a], now) )
             => IsSome(handle'[t])
      ]_vars

\* S5: round robin, one account cooling down after a rate-limit error, and
\* the acquire() that followed returned another account.
C4_Witness ==
    /\ strategy = "RoundRobin"
    /\ \E a, b \in Accounts :
          /\ a /= b
          /\ accounts[a].status = "Cooldown"
          /\ Unwrap(accounts[a].cooldown_until) > now
          /\ rrAvail = Accounts \ {a}
          /\ rrLog = << b >>
          /\ \E t \in Tasks : handle[t] = Some(b)

\* ----------------------------------------------------------------- C5
\* C5 as claimed: no two tasks hold handles for the same account at the
\* same time.
C5_ExclusiveHandle ==
    \A t, u \in Tasks :
        (t /= u /\ IsSome(handle[t]) /\ IsSome(handle[u])) => handle[t] /= handle[u]

\* C5 as amended: acquire() does not reserve the account it returns; the
\* account is still available when the call has returned, so a later
\* acquire() may return it again while the first handle is held.
C5_SelectionDoesNotReserve ==
    [][ \A t \in Tasks :
          PoolAcquireSelect(t) =>
              AvailableBySpec(accounts'[Unwrap(handle'[t])], now) ]_vars

\* Two tasks hold handles for the same account.
C5_Witness ==
    \E t, u \in Tasks :
        /\ t /= u
        /\ IsSome(handle[t])
        /\ handle[t] = handle[u]
        /\ is_available(accounts[Unwrap(handle[t])], now)

\* ----------------------------------------------------------------- C6
\* C6: with RoundRobin, while the available set stays the same set of n
\* accounts, any n consecutive acquire() calls return n distinct accounts
\* and call n+1 returns the account of call 1, whichever tasks make the calls.
C6_RoundRobinLaw ==
    strategy = "RoundRobin" =>
        LET n == Cardinality(rrAvail)
        IN  \A i, j \in 1 .. Len(rrLog) :
              i < j =>
                /\ (j - i < n => rrLog[i] /= rrLog[j])
                /\ (j - i = n => rrLog[i] = rrLog[j])

\* A full round and one more call over at least two available accounts,
\* with the handles of different tasks outstanding.
C6_Witness ==
    /\ strategy = "RoundRobin"
    /\ Cardinality(rrAvail) >= 2
    /\ Len(rrLog) = Cardinality(rrAvail) + 1
    /\ rrLog[1] = rrLog[Len(rrLog)]
    /\ \A t \in Tasks : tpc[t] = "holding"

\* ----------------------------------------------------------------- C7
\* C7: every acquisition is followed by exactly one outcome report on the
\* account acquired: per account, the acquisitions made equal the reports
\* made plus the handles still held, and every held handle is eventually
\* released, also when the task is cancelled.
C7_ExactlyOneReport ==
    /\ [](\A a \in Accounts :
            accounts[a].request_count
              = outcomes[a] + Cardinality({ t \in Tasks : handle[t] = Some(a) }))
    /\ \A t \in Tasks : (tpc[t] = "holding") ~> (tpc[t] = "idle")

\* A cancelled task's handle has made its report and nothing is held.
C7_Witness ==
    /\ lastOutcome = "cancelled"
    /\ \A t \in Tasks : tpc[t] = "idle"
    /\ \E a \in Accounts : outcomes[a] >= 1 /\ outcomes[a] = accounts[a].request_count

\* ----------------------------------------------------------------- C9
\* C9: once an account has been marked Invalid (token refresh failed), no
\* later step, be it the passage of time or a call on the request path,
\* makes it available at any time.
C9_InvalidStaysUnavailable ==
    [][ acct.status = "Invalid" =>
          \A t \in Times : ~ is_available(acct', t) ]_vars

Bytes == 0 .. 255

RECURSIVE BitXor(_, _)
BitXor(a, b) ==
    IF a = 0 THEN b
    ELSE IF b = 0 THEN a
    ELSE ((a + b) % 2) + 2 * BitXor(a \div 2, b \div 2)

\* a ^ b on u8, tabulated.
Xor8 == [a \in Bytes |-> [b \in Bytes |-> BitXor(a, b)]]

\* a ^ b on the 16-bit halves of a u32.
Xor16(a, b) == 256 * Xor8[a \div 256][b \div 256] + Xor8[a % 256][b % 256]

\* A u32 is kept as its two 16-bit halves, so that every u32 is a value.
U32Of(n) == [hi |-> n \div 65536, lo |-> n % 65536]
Xor32(a, b) == [hi |-> Xor16(a.hi, b.hi), lo |-> Xor16(a.lo, b.lo)]

\* u32::from_be_bytes on the four bytes of buf at offset off (counted from 0).
from_be_bytes(buf, off) ==
    [hi |-> 256 * buf[off + 1] + buf[off + 2],
     lo |-> 256 * buf[off + 3] + buf[off + 4]]

\* u32::to_be_bytes
to_be_bytes(u) == << u.hi \div 256, u.hi % 256, u.lo \div 256, u.lo % 256 >>

\* The number a u32 below 2^31 stands for, and the comparisons of any u32
\* with such a number.
u32_value(u) == 65536 * u.hi + u.lo
u32_lt(u, n) == u.hi < 32768 /\ u32_value(u) < n
u32_gt(u, n) == IF u.hi >= 32768 THEN TRUE ELSE u32_value(u) > n

\* ----------------------------------------------------- crc.rs: CRC32
\* CRC_32_ISO_HDLC: polynomial 0xEDB88320 (reflected), init and xorout
\* 0xFFFFFFFF.
CrcPoly == [hi |-> 60856, lo |-> 33568]
CrcOnes == [hi |-> 65535, lo |-> 65535]

CrcShift(r, bits) ==
    LET m == 2 ^ bits
    IN  [hi |-> r.hi \div m, lo |-> (r.lo \div m) + (65536 \div m) * (r.hi % m)]

RECURSIVE CrcRounds(_, _)
CrcRounds(r, n) ==
    IF n = 0 THEN r
    ELSE CrcRounds(IF r.lo % 2 = 1 THEN Xor32(CrcShift(r, 1), CrcPoly)
                                   ELSE CrcShift(r, 1),
                   n - 1)

\* The byte table of the checksum.
CrcTable == [n \in Bytes |-> CrcRounds(U32Of(n), 8)]

CrcUpdate(r, byte) == Xor32(CrcTable[Xor8[r.lo % 256][byte]], CrcShift(r, 8))

\* The register after the bytes of data from the i-th on; each step is
\* evaluated (the test on next.lo) before the next one is taken.
RECURSIVE CrcFold(_, _, _)
CrcFold(r, data, i) ==
    IF i > Len(data) THEN r
    ELSE LET next == CrcUpdate(r, data[i])
         IN  IF next.lo >= 0 THEN CrcFold(next, data, i + 1) ELSE next

\* crc32(data)
crc32(data) == Xor32(CrcFold(CrcOnes, data, 1), CrcOnes)

\* ------------------------------------------- the header codec (spec 4.3)
\* A header region is a run of entries  name_len u8 | name | type_tag u8 |
\* value.  Tags 0 and 1 have no value bytes, 2..5 are integers of 1, 2, 4
\* and 8 bytes, 6 and 7 are  u16 len | bytes, 8 is 8 bytes, 9 is 16 bytes.
HeaderFailed == [ok |-> FALSE]
NoHeaders == [n \in {} |-> 0]

FixedValueLen(tag) ==
    CASE tag \in {0, 1} -> 0
      [] tag = 2 -> 1
      [] tag = 3 -> 2
      [] tag = 4 -> 4
      [] tag \in {5, 8} -> 8
      [] tag = 9 -> 16
      [] OTHER -> -1

RECURSIVE parse_headers_from(_, _, _)
parse_headers_from(data, pos, acc) ==
    IF pos > Len(data) THEN [ok |-> TRUE, map |-> acc]
    ELSE
      LET name_len == data[pos]
          tag_at == pos + name_len + 1
      IN  IF tag_at > Len(data) THEN HeaderFailed
          ELSE
            LET name == SubSeq(data, pos + 1, pos + name_len)
                tag == data[tag_at]
                Put(first, last) ==
                    IF last > Len(data) THEN HeaderFailed
                    ELSE parse_headers_from(data, last + 1,
                            (name :> [tag |-> tag, value |-> SubSeq(data, first, last)])
                                @@ acc)
            IN  IF tag \in {6, 7}
                THEN IF tag_at + 2 > Len(data) THEN HeaderFailed
                     ELSE Put(tag_at + 3,
                              tag_at + 2 + 256 * data[tag_at + 1] + data[tag_at + 2])
                ELSE IF FixedValueLen(tag) < 0 THEN HeaderFailed
                ELSE Put(tag_at + 1, tag_at + FixedValueLen(tag))

\* parse_headers(data, header_length): the map of the region, a later entry
\* overwriting an earlier one of the same name; the whole region is consumed.
parse_headers(data, header_length) == parse_headers_from(data, 1, NoHeaders)

\* ------------------------------------------------ frame.rs: parse_frame
PRELUDE_SIZE == 12
MIN_MESSAGE_SIZE == PRELUDE_SIZE + 4
MAX_MESSAGE_SIZE == 16 * 1024 * 1024

\* Ok(None) reported as an error.
NeedMoreAsError == [kind |-> "Err", error |-> "Incomplete"]

\* Ok(None): more bytes are needed.
NeedMore == [kind |-> "None"]

Err(e) == [kind |-> "Err", error |-> e]

\* The size check with the lower limit off by one.
too_small_inclusive(total_length) == ~ u32_gt(total_length, MIN_MESSAGE_SIZE)

\* total_length < MIN_MESSAGE_SIZE as u32
too_small(total_length) == u32_lt(total_length, MIN_MESSAGE_SIZE)

\* total_length > MAX_MESSAGE_SIZE
too_large(total_length) == u32_gt(total_length, MAX_MESSAGE_SIZE)

\* The payload slice running on to the end of the message.
frame_payload_with_crc(buf, headers_end, total) ==
    SubSeq(buf, headers_end + 1, total)

\* buffer[payload_start..payload_end].to_vec()
frame_payload(buf, headers_end, total) ==
    SubSeq(buf, headers_end + 1, total - 4)

\* The byte count returned without the message CRC.
frame_consumed_without_crc(total) == total - 4

\* The byte count returned with the frame.
frame_consumed(total) == total

\* The header region measured against the whole message, the message CRC
\* included.
headers_overrun_past_crc(header_length, total) ==
    u32_gt(header_length, total - PRELUDE_SIZE)

\* headers_end > total_length - 4, compared without forming the sum: in a
\* usize of 64 bits 12 + header_length does not wrap.
headers_overrun(header_length, total) ==
    u32_gt(header_length, total - 4 - PRELUDE_SIZE)

\* The message of `total` bytes decoded: the header bound, the headers, the
\* payload.
decode_message(buf, total, header_length) ==
    IF headers_overrun(header_length, total)
    THEN Err("HeaderParseFailed")
    ELSE
      LET headers_end == PRELUDE_SIZE + u32_value(header_length)
          headers == parse_headers(SubSeq(buf, PRELUDE_SIZE + 1, headers_end),
                                   u32_value(header_length))
      IN  IF ~ headers.ok THEN Err("HeaderParseFailed")
          ELSE [kind |-> "Some",
                headers |-> headers.map,
                payload |-> frame_payload(buf, headers_end, total),
                consumed |-> frame_consumed(total)]

\* The headers decoded first, the message CRC looked at afterwards.
check_message_headers_first(buf, total, header_length) ==
    LET decoded == decode_message(buf, total, header_length)
    IN  IF decoded.kind = "Err" THEN decoded
        ELSE IF crc32(SubSeq(buf, 1, total - 4)) /= from_be_bytes(buf, total - 4)
        THEN Err("MessageCrcMismatch")
        ELSE decoded

\* The message CRC is read and verified, then the message is decoded.
check_message(buf, total, header_length) ==
    IF crc32(SubSeq(buf, 1, total - 4)) /= from_be_bytes(buf, total - 4)
    THEN Err("MessageCrcMismatch")
    ELSE decode_message(buf, total, header_length)

\* parse_frame(buffer)
parse_frame(buf) ==
    IF Len(buf) < PRELUDE_SIZE THEN NeedMore
    ELSE
      LET total_length == from_be_bytes(buf, 0)
          header_length == from_be_bytes(buf, 4)
          prelude_crc == from_be_bytes(buf, 8)
      IN  IF too_small(total_length) THEN Err("MessageTooSmall")
          ELSE IF too_large(total_length) THEN Err("MessageTooLarge")
          ELSE IF Len(buf) < u32_value(total_length) THEN NeedMore
          ELSE IF crc32(SubSeq(buf, 1, 8)) /= prelude_crc
               THEN Err("PreludeCrcMismatch")
          ELSE check_message(buf, u32_value(total_length), header_length)

\* ------------------------------------- well-formed frames (spec 4.2, 4.3)
MaxPayloadLen == 2
MaxTrail == 2
MaxExtra == 5

\* One header entry on the wire.
encode_header(e) ==
    << Len(e.name) >> \o e.name \o << e.tag >>
       \o (IF e.tag \in {6, 7}
           THEN << Len(e.value) \div 256, Len(e.value) % 256 >> ELSE << >>)
       \o e.value

RECURSIVE encode_headers(_)
encode_headers(entries) ==
    IF entries = << >> THEN << >>
    ELSE encode_header(Head(entries)) \o encode_headers(Tail(entries))

\* The message with both checksums in place.
encode_frame(entries, payload) ==
    LET hs == encode_headers(entries)
        lengths == to_be_bytes(U32Of(PRELUDE_SIZE + 4 + Len(hs) + Len(payload)))
                      \o to_be_bytes(U32Of(Len(hs)))
        body == lengths \o to_be_bytes(crc32(lengths)) \o hs \o payload
    IN  body \o to_be_bytes(crc32(body))

\* The map a list of entries stands for: a later entry of the same name
\* overwrites an earlier one.
RECURSIVE HeaderMap(_)
HeaderMap(entries) ==
    IF entries = << >> THEN NoHeaders
    ELSE LET e == entries[Len(entries)]
         IN  (e.name :> [tag |-> e.tag, value |-> e.value])
                @@ HeaderMap(SubSeq(entries, 1, Len(entries) - 1))

\* "a": true, "a": 7 (i8) and "b": "x" (string).
HTrue == [name |-> << 97 >>, tag |-> 0, value |-> << >>]
HByte == [name |-> << 97 >>, tag |-> 2, value |-> << 7 >>]
HStr == [name |-> << 98 >>, tag |-> 7, value |-> << 120 >>]
SampleHeaders ==
    { << >>, << HTrue >>, << HStr >>, << HTrue, HByte >>, << HStr, HTrue >> }

\* Payloads "{", "{{", ...
SamplePayloads == UNION { [1 .. n -> {123}] : n \in 0 .. MaxPayloadLen }

\* What follows a frame in the buffer: the first bytes of the next frame.
SampleTrails ==
    { SubSeq(encode_frame(<< >>, << >>), 1, n) : n \in 0 .. MaxTrail }

\* Declared lengths around the two limits, and beyond what an i32 holds.
SampleLengths ==
    { U32Of(0), U32Of(10), U32Of(15), U32Of(16), U32Of(17),
      U32Of(MAX_MESSAGE_SIZE - 1), U32Of(MAX_MESSAGE_SIZE),
      U32Of(MAX_MESSAGE_SIZE + 1),
      [hi |-> 32768, lo |-> 0], [hi |-> 65535, lo |-> 65535] }

\* Declared header lengths from one byte too many to the largest u32.
OverlongLengths ==
    { U32Of(1), U32Of(MaxExtra + 1), U32Of(255),
      [hi |-> 32768, lo |-> 0], [hi |-> 65535, lo |-> 65535] }

\* -------------------------------------------- parse_frame on its inputs
FrameInit ==
    /\ now = 0
    /\ AcctFresh
    /\ PoolFresh("RoundRobin")
    /\ TokFresh(FALSE)
    /\ RestFresh

\* A well-formed frame is encoded and put in the buffer, other bytes after it.
FrameBuild(entries, payload, trail) ==
    /\ fpc = "start"
    /\ buffer' = encode_frame(entries, payload) \o trail
    /\ whole' = buffer'
    /\ sent' = Some([headers |-> entries, payload |-> payload,
                     total |-> Len(encode_frame(entries, payload))])
    /\ how' = [kind |-> "intact", at |-> 0]
    /\ fpc' = "built"
    /\ UNCHANGED << result, notFrame >>

\* A buffer of 12 bytes or more that declares any lengths, with the prelude
\* CRC right or wrong, and zero bytes after the prelude.
FrameArbitrary(total_length, header_length, crc_right, extra) ==
    /\ fpc = "start"
    /\ LET lengths == to_be_bytes(total_length) \o to_be_bytes(header_length)
           crc == crc32(lengths)
       IN  buffer' = lengths
                \o to_be_bytes(IF crc_right THEN crc ELSE Xor32(crc, U32Of(1)))
                \o [i \in 1 .. extra |-> 0]
    /\ how' = [kind |-> "arbitrary", at |-> 0]
    /\ fpc' = "built"
    /\ UNCHANGED << whole, sent, result, notFrame >>

\* A message of 16 + extra bytes, zero bytes between the prelude and the
\* message CRC and both checksums right, whose prelude declares more header
\* bytes than the message has room for.
FrameOverlong(header_length, extra) ==
    /\ fpc = "start"
    /\ u32_gt(header_length, extra)
    /\ LET lengths == to_be_bytes(U32Of(MIN_MESSAGE_SIZE + extra))
                         \o to_be_bytes(header_length)
           body == lengths \o to_be_bytes(crc32(lengths)) \o [i \in 1 .. extra |-> 0]
       IN  buffer' = body \o to_be_bytes(crc32(body))
    /\ how' = [kind |-> "overlong", at |-> 0]
    /\ fpc' = "built"
    /\ UNCHANGED << whole, sent, result, notFrame >>

\* One bit of the frame is flipped: bit `bit` of the byte at offset `at`.
FrameFlip(at, bit) ==
    /\ fpc = "built"
    /\ how.kind = "intact"
    /\ at < Unwrap(sent).total
    /\ buffer' = [buffer EXCEPT ![at + 1] = Xor8[@][2 ^ bit]]
    /\ how' = [kind |-> "flipped", at |-> at]
    /\ UNCHANGED << fpc, whole, sent, result, notFrame >>

\* Only the first n bytes of the frame have arrived.
FrameTruncate(n) ==
    /\ fpc = "built"
    /\ how.kind = "intact"
    /\ n < Unwrap(sent).total
    /\ buffer' = SubSeq(buffer, 1, n)
    /\ how' = [kind |-> "truncated", at |-> n]
    /\ UNCHANGED << fpc, whole, sent, result, notFrame >>

\* parse_frame asked for more bytes and the rest has arrived.
FrameRest ==
    /\ fpc = "parsed"
    /\ how.kind = "truncated"
    /\ result = Some(NeedMore)
    /\ buffer' = whole
    /\ how' = [kind |-> "completed", at |-> how.at]
    /\ fpc' = "built"
    /\ result' = None
    /\ UNCHANGED << whole, sent, notFrame >>

FrameParse ==
    /\ fpc = "built"
    /\ result' = Some(parse_frame(buffer))
    /\ fpc' = "parsed"
    /\ UNCHANGED << buffer, whole, sent, how, notFrame >>

FrameNext ==
    \/ \E entries \in SampleHeaders, payload \in SamplePayloads,
          trail \in SampleTrails : FrameBuild(entries, payload, trail)
    \/ \E total_length \in SampleLengths, header_length \in {U32Of(0), U32Of(1)},
          crc_right \in BOOLEAN, extra \in 0 .. MaxExtra :
            FrameArbitrary(total_length, header_length, crc_right, extra)
    \/ \E header_length \in OverlongLengths, extra \in 0 .. MaxExtra :
            FrameOverlong(header_length, extra)
    \/ \E at \in 0 .. (Len(buffer) - 1), bit \in 0 .. 7 : FrameFlip(at, bit)
    \/ \E n \in 0 .. Len(buffer) : FrameTruncate(n)
    \/ FrameRest
    \/ FrameParse

SpecFrame == FrameInit /\ [][FrameNext]_vars

\* The bytes of the buffer at offsets first .. last - 1 (counted from 0).
Slice(buf, first, last) == SubSeq(buf, first + 1, last)

\* What parse_frame was given came from a well-formed frame, all of it there.
WholeFrameParsed == fpc = "parsed" /\ how.kind \in {"intact", "completed"}

\* ---------------------------------------------------------------- C11
\* C11: for every well-formed frame (header region of h bytes, payload of p
\* bytes, total_length = 16 + h + p), parse_frame on a buffer that starts
\* with the encoded frame returns the frame, its headers as encoded and its
\* payload the bytes [12 + h, total_length - 4), with consumed =
\* total_length, whatever bytes follow the frame in the buffer.
C11_ParseRoundTrip ==
    WholeFrameParsed =>
        LET f == Unwrap(sent)
            h == Len(encode_headers(f.headers))
            r == Unwrap(result)
        IN  /\ f.total = 16 + h + Len(f.payload)
            /\ r.kind = "Some"
            /\ r.headers = HeaderMap(f.headers)
            /\ r.payload = f.payload
            /\ r.payload = Slice(buffer, 12 + h, f.total - 4)
            /\ r.consumed = f.total

\* A frame with two headers and a payload was parsed out of a buffer that
\* holds more bytes after it.
C11_Witness ==
    /\ WholeFrameParsed
    /\ Len(Unwrap(sent).headers) = 2
    /\ Len(Unwrap(sent).payload) > 0
    /\ Len(buffer) > Unwrap(sent).total
    /\ Unwrap(result).kind = "Some"

\* ---------------------------------------------------------------- C12
\* C12: for every well-formed frame, flipping any one bit in its first 8
\* bytes makes parse_frame on the complete frame return PreludeCrcMismatch.
C12_PreludeFlipDetected ==
    (fpc = "parsed" /\ how.kind = "flipped" /\ how.at < 8) =>
        result = Some([kind |-> "Err", error |-> "PreludeCrcMismatch"])

\* ---------------------------------------------------------------- C13
\* C13: for every well-formed frame, flipping any one bit in its header
\* region or payload (bytes 12 .. total_length - 4) makes parse_frame
\* return MessageCrcMismatch: no frame is returned, and no error of the
\* header decoder either, since the message CRC is verified first.
C13_MessageFlipDetected ==
    ( /\ fpc = "parsed"
      /\ how.kind = "flipped"
      /\ how.at >= 12
      /\ how.at < Unwrap(sent).total - 4 ) =>
        result = Some([kind |-> "Err", error |-> "MessageCrcMismatch"])

\* The flipped bit made the header region undecodable, and parse_frame
\* answered MessageCrcMismatch.
C13_Witness ==
    /\ fpc = "parsed"
    /\ how.kind = "flipped"
    /\ how.at >= 12
    /\ how.at < 12 + Len(encode_headers(Unwrap(sent).headers))
    /\ ~ parse_headers(Slice(buffer, 12,
                             12 + Len(encode_headers(Unwrap(sent).headers))), 0).ok
    /\ Unwrap(result).kind = "Err"
    /\ Unwrap(result).error = "MessageCrcMismatch"

\* ---------------------------------------------------------------- C14
\* C14: on every buffer of 12 bytes or more, parse_frame fails with
\* MessageTooSmall when the declared total_length is below 16 and with
\* MessageTooLarge when it is above 16 MiB (2^24), whatever the CRC fields
\* hold and however many bytes follow; total_length 16 and total_length
\* 16 MiB pass the size check.
C14_SizeCheck ==
    (fpc = "parsed" /\ Len(buffer) >= 12) =>
        LET b == SubSeq(buffer, 1, 4)
            r == Unwrap(result)
            size_errors == { [kind |-> "Err", error |-> "MessageTooSmall"],
                             [kind |-> "Err", error |-> "MessageTooLarge"] }
        IN  /\ (b[1] = 0 /\ b[2] = 0 /\ b[3] = 0 /\ b[4] < 16)
                  => r = [kind |-> "Err", error |-> "MessageTooSmall"]
            /\ (b[1] > 1 \/ (b[1] = 1 /\ (b[2] > 0 \/ b[3] > 0 \/ b[4] > 0)))
                  => r = [kind |-> "Err", error |-> "MessageTooLarge"]
            /\ (b = << 0, 0, 0, 16 >> \/ b = << 1, 0, 0, 0 >>)
                  => r \notin size_errors

\* A prelude that declares 10 bytes, with a wrong prelude CRC and bytes
\* after it, was answered MessageTooSmall.
C14_Witness ==
    /\ fpc = "parsed"
    /\ how.kind = "arbitrary"
    /\ SubSeq(buffer, 1, 4) = << 0, 0, 0, 10 >>
    /\ crc32(SubSeq(buffer, 1, 8)) /= from_be_bytes(buffer, 8)
    /\ Len(buffer) > 12
    /\ result = Some([kind |-> "Err", error |-> "MessageTooSmall"])

\* ---------------------------------------------------------------- C15
\* C15: parse_frame returns None, not an error, when the buffer holds fewer
\* than 12 bytes, and when the declared total_length is within
\* [16, 16 MiB] but the buffer holds fewer bytes than that, whatever the
\* CRC fields hold; and the frame is parsed once its bytes have all arrived.
C15_NeedMoreBytes ==
    fpc = "parsed" =>
        LET r == Unwrap(result)
            b == SubSeq(buffer, 1, 4)
            declared == 65536 * (256 * b[1] + b[2]) + 256 * b[3] + b[4]
        IN  /\ Len(buffer) < 12 => r = [kind |-> "None"]
            /\ ( /\ Len(buffer) >= 12
                 /\ b[1] = 0 \/ b = << 1, 0, 0, 0 >>
                 /\ declared >= 16
                 /\ Len(buffer) < declared ) => r = [kind |-> "None"]
            /\ how.kind = "completed" => r.kind = "Some"

\* A frame cut inside its prelude was answered None, and was parsed when
\* the rest had arrived.
C15_Witness ==
    /\ fpc = "parsed"
    /\ how.kind = "completed"
    /\ how.at > 0
    /\ how.at < 12
    /\ Unwrap(result).kind = "Some"

\* ------------------------------------------- the stream decoder (spec 4.4)
MaxFrames == 2

\* The frames a response body is made of.
DecFrames ==
    { [headers |-> << >>, payload |-> << >>],
      [headers |-> << HTrue >>, payload |-> << 123 >>],
      [headers |-> << HStr, HTrue >>, payload |-> << 123, 123 >>] }

DecBodies == UNION { [1 .. n -> DecFrames] : n \in 1 .. MaxFrames }

RECURSIVE EncodeAll(_)
EncodeAll(frames) ==
    IF frames = << >> THEN << >>
    ELSE encode_frame(Head(frames).headers, Head(frames).payload)
            \o EncodeAll(Tail(frames))

\* The frame parse_frame returned, without the byte count.
FrameOf(r) == [headers |-> r.headers, payload |-> r.payload]

\* The frame as the decoder is to return it.
Decoded(f) == [headers |-> HeaderMap(f.headers), payload |-> f.payload]

\* All of the body in the buffer at once, next_frame() called until it
\* returns no frame.
RECURSIVE DrainAll(_)
DrainAll(bytes) ==
    LET r == parse_frame(bytes)
    IN  IF r.kind = "Some"
        THEN << FrameOf(r) >> \o DrainAll(SubSeq(bytes, r.consumed + 1, Len(bytes)))
        ELSE << >>

DecInit ==
    /\ now = 0
    /\ AcctFresh
    /\ PoolFresh("RoundRobin")
    /\ TokFresh(FALSE)
    /\ FrameFresh
    /\ SseFresh
    /\ FnFresh
    /\ \E body \in DecBodies :
          /\ dsent = body
          /\ pending = EncodeAll(body)
    /\ dbuf = << >>
    /\ yielded = << >>
    /\ dlast = "none"
    /\ dheld = FALSE

\* feed(bytes): the next n bytes of the body are appended.
DecFeed(n) ==
    /\ n >= 1
    /\ n <= Len(pending)
    /\ dbuf' = dbuf \o SubSeq(pending, 1, n)
    /\ pending' = SubSeq(pending, n + 1, Len(pending))
    /\ dlast' = "feed"
    /\ UNCHANGED << yielded, dsent, dheld, notDec >>

\* next_frame(): the parser is invoked on the buffer; a frame advances the
\* buffer by the bytes consumed, None leaves it, an error is returned.
DecNextFrame ==
    /\ dlast /= "error"
    /\ LET r == parse_frame(dbuf)
       IN  CASE r.kind = "Some" ->
                   /\ dbuf' = SubSeq(dbuf, r.consumed + 1, Len(dbuf))
                   /\ yielded' = Append(yielded, FrameOf(r))
                   /\ dlast' = "frame"
                   /\ dheld' = dheld
             [] r.kind = "None" ->
                   /\ dlast' = "none"
                   /\ dheld' = (dheld \/ (Len(dbuf) > 0 /\ Len(dbuf) < PRELUDE_SIZE))
                   /\ UNCHANGED << dbuf, yielded >>
             [] OTHER ->
                   /\ dlast' = "error"
                   /\ UNCHANGED << dbuf, yielded, dheld >>
    /\ UNCHANGED << pending, dsent, notDec >>

DecNext ==
    \/ \E n \in 1 .. Len(pending) : DecFeed(n)
    \/ DecNextFrame

SpecDecoder == DecInit /\ [][DecNext]_vars

\* The frames of the body, as they are to be returned.
RECURSIVE DecodedAll(_)
DecodedAll(frames) ==
    IF frames = << >> THEN << >>
    ELSE << Decoded(Head(frames)) >> \o DecodedAll(Tail(frames))

\* ---------------------------------------------------------------- C16
\* C16: for every body made of well-formed frames and every way of cutting
\* it into chunks, feeding the chunks in order and calling next_frame()
\* yields the frames of the body in arrival order, the same as with the
\* whole body fed at once; next_frame() never returns an error, and the
\* bytes of a frame not yet complete stay in the buffer over any number of
\* feed calls.
C16_ChunkingInvariant ==
    /\ dlast /= "error"
    /\ Len(yielded) <= Len(dsent)
    /\ yielded = SubSeq(DecodedAll(dsent), 1, Len(yielded))
    /\ EncodeAll(SubSeq(dsent, 1, Len(yielded))) \o dbuf \o pending
          = EncodeAll(dsent)
    /\ (pending = << >> /\ dlast = "none") =>
          /\ yielded = DecodedAll(dsent)
          /\ yielded = DrainAll(EncodeAll(dsent))

\* A body of two frames has been fed in chunks of which one ended inside a
\* prelude, and both frames have been returned.
C16_Witness ==
    /\ dheld
    /\ pending = << >>
    /\ dlast = "none"
    /\ Len(dsent) = 2
    /\ yielded = DecodedAll(dsent)

\* ------------------------------------- the event model (events/base.rs)
MaxEvents == 4

\* A decoded frame as the event model reads it: what the accessors of its
\* headers return (Option<&str>) for :message-type, :event-type, :error-code
\* and :exception-type, and the payload.
EventFrame(message_type, event_type, error_code, exception_type, payload) ==
    [message_type |-> message_type, event_type |-> event_type,
     error_code |-> error_code, exception_type |-> exception_type,
     payload |-> payload]
\* A frame of an upstream response: it has no :error-code or :exception-type.
UpFrame(message_type, event_type, payload) ==
    EventFrame(message_type, event_type, None, None, payload)
\* A payload is its bytes and what serde_json makes of them: a JSON object
\* (json, with its members) or no JSON object.  JsonObject gives the members
\* only: the text of such a payload is not read by the parsers that take it.
Payload(bytes, json, members) == [json |-> json, members |-> members, bytes |-> bytes]
JsonObject(members) == [json |-> TRUE, members |-> members]
NotJson == Payload(<< >>, FALSE, NoHeaders)
Has(payload, field) == field \in DOMAIN payload.members

Failed(e) == [ok |-> FALSE, error |-> e]
Ok(event) == [ok |-> TRUE, event |-> event]

\* ToolUseEvent::from_frame: serde with camelCase names; name and
\* toolUseId are required, input and stop have defaults.
ToolUseEvent_from_frame(frame) ==
    LET p == frame.payload
    IN  IF ~ p.json \/ ~ Has(p, "name") \/ ~ Has(p, "toolUseId")
        THEN Failed("PayloadDeserialize")
        ELSE Ok([type |-> "ToolUse",
                 name |-> p.members.name,
                 tool_use_id |-> p.members.toolUseId,
                 input |-> IF Has(p, "input") THEN p.members.input ELSE "",
                 stop |-> IF Has(p, "stop") THEN p.members.stop ELSE FALSE])

\* AssistantResponseEvent::from_frame: content has a default, the other
\* members are kept aside.
AssistantResponseEvent_from_frame(frame) ==
    LET p == frame.payload
    IN  IF ~ p.json THEN Failed("PayloadDeserialize")
        ELSE Ok([type |-> "AssistantResponse",
                 content |-> IF Has(p, "content") THEN p.members.content ELSE ""])

\* ContextUsageEvent::from_frame: the percentage has a default.
ContextUsageEvent_from_frame(frame) ==
    IF ~ frame.payload.json THEN Failed("PayloadDeserialize")
    ELSE Ok([type |-> "ContextUsage"])

\* EventType::from_str
EventType_from_str(s) ==
    CASE s = "assistantResponseEvent" -> "AssistantResponse"
      [] s = "toolUseEvent"           -> "ToolUse"
      [] s = "meteringEvent"          -> "Metering"
      [] s = "contextUsageEvent"      -> "ContextUsage"
      [] OTHER                        -> "Unknown"

unwrap_or(o, default) == IF IsSome(o) THEN Unwrap(o) ELSE default

\* Event::parse_event
parse_event(frame) ==
    LET event_type == EventType_from_str(unwrap_or(frame.event_type, "unknown"))
    IN  CASE event_type = "AssistantResponse" -> AssistantResponseEvent_from_frame(frame)
          [] event_type = "ToolUse"           -> ToolUseEvent_from_frame(frame)
          [] event_type = "Metering"          -> Ok([type |-> "Metering"])
          [] event_type = "ContextUsage"      -> ContextUsageEvent_from_frame(frame)
          [] OTHER                            -> Ok([type |-> "Unknown"])

\* String::from_utf8_lossy, to code points: each maximal ill-formed
\* sequence of bytes becomes one U+FFFD.
REPLACEMENT_CHARACTER == 65533
Continues(b, j, lo, hi) == j <= Len(b) /\ b[j] >= lo /\ b[j] <= hi
\* The range the second byte of a sequence led by c must be in.
SecondLow(c) == CASE c = 224 -> 160 [] c = 240 -> 144 [] OTHER -> 128
SecondHigh(c) == CASE c = 237 -> 159 [] c = 244 -> 143 [] OTHER -> 191
RECURSIVE lossy_from(_, _)
lossy_from(b, i) ==
    IF i > Len(b) THEN << >>
    ELSE LET c == b[i]
             bad == << REPLACEMENT_CHARACTER >>
         IN  CASE c < 128 -> << c >> \o lossy_from(b, i + 1)
               [] c >= 194 /\ c <= 223 ->
                    IF Continues(b, i + 1, 128, 191)
                    THEN << (c - 192) * 64 + (b[i + 1] - 128) >> \o lossy_from(b, i + 2)
                    ELSE bad \o lossy_from(b, i + 1)
               [] c >= 224 /\ c <= 239 ->
                    IF ~ Continues(b, i + 1, SecondLow(c), SecondHigh(c))
                    THEN bad \o lossy_from(b, i + 1)
                    ELSE IF ~ Continues(b, i + 2, 128, 191)
                    THEN bad \o lossy_from(b, i + 2)
                    ELSE << (c - 224) * 4096 + (b[i + 1] - 128) * 64 + (b[i + 2] - 128) >>
                         \o lossy_from(b, i + 3)
               [] c >= 240 /\ c <= 244 ->
                    IF ~ Continues(b, i + 1, SecondLow(c), SecondHigh(c))
                    THEN bad \o lossy_from(b, i + 1)
                    ELSE IF ~ Continues(b, i + 2, 128, 191)
                    THEN bad \o lossy_from(b, i + 2)
                    ELSE IF ~ Continues(b, i + 3, 128, 191)
                    THEN bad \o lossy_from(b, i + 3)
                    ELSE << (c - 240) * 262144 + (b[i + 1] - 128) * 4096
                            + (b[i + 2] - 128) * 64 + (b[i + 3] - 128) >>
                         \o lossy_from(b, i + 4)
               [] OTHER -> bad \o lossy_from(b, i + 1)
from_utf8_lossy(b) == lossy_from(b, 1)

\* Frame::payload_as_str
payload_as_str(frame) == from_utf8_lossy(frame.payload.bytes)

\* Event::parse_error, had it read the payload as JSON as the event parsers do.
parse_error_as_json(frame) ==
    IF ~ frame.payload.json THEN Failed("PayloadDeserialize")
    ELSE Ok([type |-> "Error",
             error_code |-> unwrap_or(frame.error_code, "UnknownError"),
             error_message |-> payload_as_str(frame)])
\* Event::parse_error
parse_error(frame) ==
    Ok([type |-> "Error",
        error_code |-> unwrap_or(frame.error_code, "UnknownError"),
        error_message |-> payload_as_str(frame)])

\* Event::parse_exception
parse_exception(frame) ==
    Ok([type |-> "Exception",
        exception_type |-> unwrap_or(frame.exception_type, "UnknownException"),
        message |-> payload_as_str(frame)])

\* Event::from_frame, had it required the :message-type header.
from_frame_header_required(frame) ==
    LET message_type == unwrap_or(frame.message_type, "none")
    IN  CASE message_type = "event"     -> parse_event(frame)
          [] message_type = "error"     -> parse_error(frame)
          [] message_type = "exception" -> parse_exception(frame)
          [] OTHER                      -> Failed("InvalidMessageType")
\* Event::from_frame
from_frame(frame) ==
    LET message_type == unwrap_or(frame.message_type, "event")
    IN  CASE message_type = "event"     -> parse_event(frame)
          [] message_type = "error"     -> parse_error(frame)
          [] message_type = "exception" -> parse_exception(frame)
          [] OTHER                      -> Failed("InvalidMessageType")

\* The frames an upstream response is made of.
ToolIds == {"tu_1", "tu_2"}
ToolFrame(id, stop) ==
    UpFrame(Some("event"), Some("toolUseEvent"),
            JsonObject([name |-> "get_weather", toolUseId |-> id,
                        input |-> "{", stop |-> stop]))
\* The second frame of S3: toolUseId, input and stop only.
ToolFrameUnnamed(id, stop) ==
    UpFrame(Some("event"), Some("toolUseEvent"),
            JsonObject([toolUseId |-> id, input |-> "}", stop |-> stop]))
TextFrame ==
    UpFrame(Some("event"), Some("assistantResponseEvent"),
            JsonObject([content |-> "he"]))
ErrorFrames ==
    { UpFrame(Some("error"), None, NotJson),
      UpFrame(Some("exception"), None, NotJson) }
UpstreamFrames ==
    { TextFrame }
      \cup { ToolFrame(id, stop) : id \in ToolIds, stop \in BOOLEAN }
      \cup { ToolFrameUnnamed("tu_1", TRUE) }
      \cup { UpFrame(Some("event"), Some("meteringEvent"), NotJson),
             UpFrame(None, Some("contextUsageEvent"), JsonObject(NoHeaders)),
             UpFrame(Some("event"), Some("somethingElse"), NotJson),
             UpFrame(Some("bogus"), None, NotJson) }
      \cup ErrorFrames

\* --------------------------- the stream converter (spec 4.7, spec 7)
\* The converter state with the SSE events emitted so far.
Emit(st, e) == [st EXCEPT !.sse = Append(@, e)]

\* First event: message_start, and the state becomes Between.
Started(st) ==
    IF st.estate = "Idle"
    THEN [Emit(st, [event |-> "message_start"]) EXCEPT !.estate = "Between"]
    ELSE st

\* The open block, if any, is closed: content_block_stop.
CloseBlock(st) ==
    IF st.estate \in {"InText", "InToolUse"}
    THEN [Emit(st, [event |-> "content_block_stop", index |-> st.eindex])
            EXCEPT !.estate = "Between",
                   !.lastClosed = IF st.estate = "InText" THEN "text" ELSE "tool_use",
                   !.etool = None]
    ELSE st

\* A block index that repeats the one before.
next_index_same(index) == IF index < 0 THEN 0 ELSE index

\* The index of a new block: one more than the latest, 0 for the first.
next_index(index) == index + 1

\* A new block is opened at the next index: content_block_start.
OpenBlock(st, type, id, name) ==
    [Emit(st, [event |-> "content_block_start", index |-> next_index(st.eindex),
               type |-> type, id |-> id, name |-> name])
        EXCEPT !.eindex = next_index(st.eindex),
               !.estate = IF type = "text" THEN "InText" ELSE "InToolUse",
               !.etool = IF type = "text" THEN None ELSE Some(id)]

Delta(st, kind) ==
    Emit(st, [event |-> "content_block_delta", index |-> st.eindex, delta |-> kind])

\* AssistantResponse{content}
OnAssistantResponse(st) ==
    LET a == IF st.estate = "InToolUse" THEN CloseBlock(st) ELSE st
        b == IF a.estate = "Between" THEN OpenBlock(a, "text", "", "") ELSE a
    IN  Delta(b, "text_delta")

\* ToolUse{name, tool_use_id, input, stop}
OnToolUse(st, ev) ==
    LET a == IF st.estate = "InText" THEN CloseBlock(st) ELSE st
        b == IF a.estate = "Between" \/ a.etool /= Some(ev.tool_use_id)
             THEN OpenBlock(CloseBlock(a), "tool_use", ev.tool_use_id, ev.name)
             ELSE a
        c == Delta(b, "input_json_delta")
    IN  IF ev.stop THEN CloseBlock(c) ELSE c

\* An error that leaves the emitter translating.
OnError_stays_open(st) ==
    Emit(Emit(st, [event |-> "message_delta", stop_reason |-> "error"]),
         [event |-> "error"])

\* Error or Exception with a message in flight, and any upstream-protocol
\* error once an SSE frame has been flushed: message_delta with stop_reason
\* error, the SSE error event, and the stream closes.
OnError(st) ==
    [Emit(Emit(st, [event |-> "message_delta", stop_reason |-> "error"]),
          [event |-> "error"])
        EXCEPT !.estate = "MessageEnded"]

\* The end of the stream with the open block left open.
OnEnd_leaves_open(st) ==
    [Emit(Emit(st, [event |-> "message_delta",
                    stop_reason |-> IF st.estate = "InToolUse" \/ st.lastClosed = "tool_use"
                                    THEN "tool_use" ELSE "end_turn"]),
          [event |-> "message_stop"])
        EXCEPT !.estate = "MessageEnded"]

\* End of upstream stream: close any open block, message_delta with the
\* stop_reason derived from the last closed block, message_stop.
OnEnd(st) ==
    LET a == CloseBlock(st)
    IN  [Emit(Emit(a, [event |-> "message_delta",
                       stop_reason |-> IF a.lastClosed = "tool_use"
                                       THEN "tool_use" ELSE "end_turn"]),
              [event |-> "message_stop"])
           EXCEPT !.estate = "MessageEnded"]

\* One decoded event translated.
OnEvent(st, ev) ==
    CASE ev.type = "AssistantResponse"      -> OnAssistantResponse(st)
      [] ev.type = "ToolUse"                -> OnToolUse(st, ev)
      [] ev.type \in {"Error", "Exception"} -> OnError(st)
      [] OTHER                              -> st

Converter ==
    [estate |-> estate, eindex |-> eindex, etool |-> etool,
     lastClosed |-> lastClosed, sse |-> sse]

\* The converter state is stored; the first SSE frame flushed fixes the
\* HTTP status at 200.
Store(st) ==
    /\ estate' = st.estate
    /\ eindex' = st.eindex
    /\ etool' = st.etool
    /\ lastClosed' = st.lastClosed
    /\ sse' = st.sse
    /\ httpStatus' = IF httpStatus = None /\ st.sse /= << >> THEN Some(200)
                     ELSE httpStatus

SseInit ==
    /\ now = 0
    /\ AcctFresh
    /\ PoolFresh("RoundRobin")
    /\ TokFresh(FALSE)
    /\ RestFresh

\* The next upstream frame is decoded and its event translated.  A frame
\* that does not decode is an upstream-protocol error: 502 when nothing has
\* been flushed, the inline error otherwise.
SseTake(frame) ==
    /\ estate /= "MessageEnded"
    /\ ~ upEnded
    /\ Len(upLog) < MaxEvents
    /\ upLog' = Append(upLog, frame)
    /\ LET r == from_frame(frame)
       IN  IF r.ok THEN Store(OnEvent(Started(Converter), r.event))
           ELSE IF estate = "Idle"
           THEN /\ httpStatus' = Some(502)
                /\ estate' = "MessageEnded"
                /\ UNCHANGED << eindex, etool, lastClosed, sse >>
           ELSE Store(OnError(Converter))
    /\ UNCHANGED << upEnded, notSse >>

\* The upstream body ends.
SseEnd ==
    /\ estate /= "MessageEnded"
    /\ ~ upEnded
    /\ upEnded' = TRUE
    /\ Store(OnEnd(Started(Converter)))
    /\ UNCHANGED << upLog, notSse >>

\* The emitter has closed on an error; a frame that still arrives is
\* not translated.
SseDrop(frame) ==
    /\ estate = "MessageEnded"
    /\ ~ upEnded
    /\ Len(upLog) < MaxEvents
    /\ upLog' = Append(upLog, frame)
    /\ UNCHANGED << upEnded, estate, eindex, etool, lastClosed, sse, httpStatus,
                    notSse >>

SseNext ==
    \/ \E frame \in UpstreamFrames : SseTake(frame)
    \/ SseEnd
    \/ \E frame \in UpstreamFrames : SseDrop(frame)

SpecSse == SseInit /\ [][SseNext]_vars

Last(seq) == seq[Len(seq)]

\* The stream was closed by an error: the SSE error event is the last one.
ErrorClosed == sse /= << >> /\ Last(sse).event = "error"

\* The SSE events without the two that an error close adds.
BeforeError ==
    IF ErrorClosed /\ Len(sse) >= 2 THEN SubSeq(sse, 1, Len(sse) - 2) ELSE sse

\* One step of reading  message_start (content_block_start
\* (content_block_delta)* content_block_stop)* message_delta message_stop
\* with block indices 0, 1, 2, ...
GrammarStep(g, e) ==
    CASE g.q = "start" /\ e.event = "message_start" -> [g EXCEPT !.q = "between"]
      [] g.q = "between" /\ e.event = "content_block_start" /\ e.index = g.blocks ->
            [g EXCEPT !.q = "block", !.blocks = @ + 1]
      [] g.q = "between" /\ e.event = "message_delta" -> [g EXCEPT !.q = "ending"]
      [] g.q = "block" /\ e.event = "content_block_delta" /\ e.index = g.blocks - 1 -> g
      [] g.q = "block" /\ e.event = "content_block_stop" /\ e.index = g.blocks - 1 ->
            [g EXCEPT !.q = "between"]
      [] g.q = "ending" /\ e.event = "message_stop" -> [g EXCEPT !.q = "done"]
      [] OTHER -> [g EXCEPT !.q = "bad"]

RECURSIVE GrammarRun(_, _, _)
GrammarRun(g, events, i) ==
    IF i > Len(events) THEN g
    ELSE GrammarRun(GrammarStep(g, events[i]), events, i + 1)

Grammar(events) == GrammarRun([q |-> "start", blocks |-> 0], events, 1)

\* ---------------------------------------------------------------- C17
\* C17 as claimed: for every upstream event sequence the SSE events
\* emitted match  message_start (content_block_start (content_block_delta)*
\* content_block_stop)* message_delta message_stop  with block indices 0,
\* 1, 2, ...: a prefix of it while the response is being emitted, all of it
\* once the response has ended.
C17_EventGrammar ==
    /\ Grammar(sse).q /= "bad"
    /\ estate = "MessageEnded" => Grammar(sse).q = "done"

\* C17 as amended: for every upstream event sequence that reaches its end
\* with no Error or Exception event and no frame that fails to decode, the
\* SSE events match the expression, with block indices 0, 1, 2, ...; when
\* such an event or frame arrives after the first SSE frame, the events
\* emitted until then are a prefix of a matching sequence, cut before
\* message_delta, and message_delta with stop_reason error and the SSE
\* error event follow, with no message_stop.
C17_EventGrammarUnlessError ==
    LET g == Grammar(BeforeError)
    IN  /\ g.q /= "bad"
        /\ upEnded <=> g.q = "done"
        /\ ErrorClosed =>
              /\ g.q \in {"between", "block"}
              /\ sse[Len(sse) - 1] = [event |-> "message_delta", stop_reason |-> "error"]

\* A response of a text block and a tool_use block, indices 0 and 1, has
\* ended with message_stop.
C17_Witness ==
    /\ upEnded
    /\ Grammar(sse).q = "done"
    /\ Grammar(sse).blocks = 2
    /\ \E i, j \in 1 .. Len(sse) :
          /\ sse[i].event = "content_block_start" /\ sse[i].type = "text"
          /\ sse[j].event = "content_block_start" /\ sse[j].type = "tool_use"

\* ---------------------------------------------------------------- C18
\* The upstream frames are a run of toolUseEvents of one toolUseId, the
\* first with the tool's name, the last and only the last with stop = true.
IsToolRun(log) ==
    /\ Len(log) >= 1
    /\ \A i \in 1 .. Len(log) :
          /\ log[i].message_type = Some("event")
          /\ log[i].event_type = Some("toolUseEvent")
          /\ log[i].payload.json
          /\ log[i].payload.members.toolUseId = log[1].payload.members.toolUseId
          /\ log[i].payload.members.stop = (i = Len(log))
    /\ Has(log[1].payload, "name")

\* C18: a run of upstream toolUseEvents that share one toolUseId, the last
\* with stop = true, becomes exactly one content_block_start (tool_use, that
\* id, the tool's name), one input_json_delta per event and exactly one
\* content_block_stop, and the message then ends with stop_reason tool_use;
\* also when the later events carry only toolUseId, input and stop (S3).
C18_ToolRunTranslated ==
    IsToolRun(upLog) =>
        LET n == Len(upLog)
            first == upLog[1].payload.members
            block ==
                << [event |-> "message_start"],
                   [event |-> "content_block_start", index |-> 0, type |-> "tool_use",
                    id |-> first.toolUseId, name |-> first.name] >>
                \o [i \in 1 .. n |-> [event |-> "content_block_delta", index |-> 0,
                                      delta |-> "input_json_delta"]]
                \o << [event |-> "content_block_stop", index |-> 0] >>
        IN  /\ httpStatus = Some(200)
            /\ IF upEnded
               THEN sse = block \o << [event |-> "message_delta", stop_reason |-> "tool_use"],
                                      [event |-> "message_stop"] >>
               ELSE sse = block

\* ---------------------------------------------------------------- C19
\* The type of the block that the last content_block_stop closed.
LastClosedType(events) ==
    LET stops == { i \in 1 .. Len(events) : events[i].event = "content_block_stop" }
    IN  IF stops = {} THEN "none"
        ELSE LET last == CHOOSE i \in stops : \A j \in stops : j <= i
                 start == CHOOSE i \in 1 .. Len(events) :
                             /\ events[i].event = "content_block_start"
                             /\ events[i].index = events[last].index
             IN  events[start].type

Count(events, kind) ==
    Cardinality({ i \in 1 .. Len(events) : events[i].event = kind })

\* C19: at the end of the upstream stream every open block is closed, then
\* message_delta is emitted, then message_stop; the stop_reason is tool_use
\* exactly when the last content block closed was a tool_use block, and
\* end_turn otherwise, also with text only and with no content block.
C19_EndOfStream ==
    upEnded =>
        LET n == Len(sse)
            before == SubSeq(sse, 1, n - 2)
        IN  /\ n >= 3
            /\ sse[n] = [event |-> "message_stop"]
            /\ sse[n - 1].event = "message_delta"
            /\ Count(before, "content_block_start") = Count(before, "content_block_stop")
            /\ Count(before, "message_delta") = 0
            /\ sse[n - 1].stop_reason =
                  IF LastClosedType(sse) = "tool_use" THEN "tool_use" ELSE "end_turn"

\* The stream ended after a text event and a toolUseEvent without stop:
\* the tool_use block was closed at the end and stop_reason is tool_use.
C19_Witness ==
    /\ upEnded
    /\ Len(upLog) >= 2
    /\ upLog[1] = TextFrame
    /\ Last(upLog) = ToolFrame("tu_1", FALSE)
    /\ sse[Len(sse) - 1] = [event |-> "message_delta", stop_reason |-> "tool_use"]
    /\ sse[Len(sse) - 2] = [event |-> "content_block_stop", index |-> 1]

\* ---------------------------------------------------------------- C20
\* C20: an upstream Error or Exception event that arrives after the message
\* has started makes the emitter emit message_delta with stop_reason error
\* and then the SSE error event, and close: from then on no SSE event is
\* emitted (no content_block_start, content_block_delta or message_stop),
\* upstream frames that still arrive are not translated, and the HTTP
\* status already sent stays as it is.
C20_ErrorCloses ==
    [][ /\ \A frame \in ErrorFrames :
              (SseTake(frame) /\ estate /= "Idle") =>
                  /\ sse' = sse \o << [event |-> "message_delta", stop_reason |-> "error"],
                                      [event |-> "error"] >>
                  /\ httpStatus = Some(200)
                  /\ httpStatus' = httpStatus
        /\ ErrorClosed => (sse' = sse /\ httpStatus' = httpStatus)
      ]_vars

\* An Error event arrived inside an open block, the stream was closed with
\* the two events, and a text event that arrived afterwards left no trace.
C20_Witness ==
    /\ ErrorClosed
    /\ Len(upLog) >= 3
    /\ upLog[1] = TextFrame
    /\ upLog[2] \in ErrorFrames
    /\ upLog[3] = TextFrame
    /\ Len(sse) = 5
    /\ httpStatus = Some(200)

\* -------------------------------- Event::from_frame on any decoded frame
\* What the header accessors can return, and the payloads a frame can hold:
\* nothing, "{}", "hi", a byte that starts no UTF-8 sequence, a two-byte
\* sequence cut short before "(", the three bytes of U+20AC, and a
\* four-byte sequence cut after two.
MessageTypes == {None, Some("event"), Some("error"), Some("exception"), Some("bogus")}
EventTypes ==
    {None, Some("assistantResponseEvent"), Some("toolUseEvent"),
     Some("meteringEvent"), Some("contextUsageEvent"), Some("somethingElse")}
ErrorCodes == {None, Some("ThrottlingException")}
ExceptionTypes == {None, Some("ContentLengthExceededException")}
EventPayloads ==
    {Payload(<< >>, FALSE, NoHeaders),
     Payload(<< 123, 125 >>, TRUE, NoHeaders),
     Payload(<< 104, 105 >>, FALSE, NoHeaders),
     Payload(<< 255 >>, FALSE, NoHeaders),
     Payload(<< 195, 40 >>, FALSE, NoHeaders),
     Payload(<< 226, 130, 172 >>, FALSE, NoHeaders),
     Payload(<< 104, 240, 159 >>, FALSE, NoHeaders)}
EventFrames ==
    {EventFrame(m, e, c, x, p) :
        m \in MessageTypes, e \in EventTypes, c \in ErrorCodes,
        x \in ExceptionTypes, p \in EventPayloads}

\* The rest of the state while one function is called.
FnQuiet ==
    /\ now = 0
    /\ AcctFresh
    /\ PoolFresh("RoundRobin")
    /\ TokFresh(FALSE)
    /\ FrameFresh
    /\ pending = << >> /\ dbuf = << >> /\ yielded = << >> /\ dsent = << >>
    /\ dlast = "none" /\ dheld = FALSE
    /\ SseFresh

Called(fn) == IsSome(call) /\ Unwrap(call).fn = fn
Returned(fn) == Called(fn) /\ IsSome(ret)
Arg == Unwrap(call)
Ret == Unwrap(ret)

EventInit ==
    /\ FnQuiet
    /\ \E frame \in EventFrames : call = Some([fn |-> "from_frame", frame |-> frame])
    /\ ret = None

EventFromFrame ==
    /\ Called("from_frame")
    /\ ret = None
    /\ ret' = Some(from_frame(Arg.frame))
    /\ UNCHANGED << call, notFn >>

EventNext == EventFromFrame

SpecEvent == EventInit /\ [][EventNext]_vars

KnownMessageTypes == {"event", "error", "exception"}
KnownEventTypes ==
    {"assistantResponseEvent", "toolUseEvent", "meteringEvent", "contextUsageEvent"}
EventKinds == {"AssistantResponse", "ToolUse", "Metering", "ContextUsage", "Unknown"}

\* C21: from_frame fails with InvalidMessageType exactly when the frame has
\* a :message-type header whose value is none of event, error, exception;
\* an error frame gives an Error, an exception frame an Exception, an event
\* frame what the event parsers give (one of the event kinds, or their
\* payload error), and a frame with no :message-type header gives what the
\* same frame gives with :message-type event.
C21_MessageTypeDispatch ==
    Returned("from_frame") =>
        LET f == Arg.frame
            r == Ret
            asEvent == [f EXCEPT !.message_type = Some("event")]
        IN  /\ (~ r.ok /\ r.error = "InvalidMessageType")
                <=> (IsSome(f.message_type)
                     /\ Unwrap(f.message_type) \notin KnownMessageTypes)
            /\ f.message_type = Some("error") => r.ok /\ r.event.type = "Error"
            /\ f.message_type = Some("exception") => r.ok /\ r.event.type = "Exception"
            /\ f.message_type = Some("event") =>
                  IF r.ok THEN r.event.type \in EventKinds
                  ELSE r.error = "PayloadDeserialize"
            /\ f.message_type = None => r = from_frame(asEvent)

\* A frame with no :message-type header and a known event type was parsed
\* as that event, and a frame of an unknown message type was refused.
C21_Witness ==
    /\ Returned("from_frame")
    /\ Arg.frame.message_type = None
    /\ Arg.frame.event_type = Some("meteringEvent")
    /\ Ret.ok
    /\ Ret.event.type = "Metering"

\* C22: for an event frame whose :event-type is none of the four known
\* types, or is absent, from_frame succeeds whatever the payload and
\* returns an Unknown event that carries the frame's event type and its
\* payload bytes.
C22_UnknownCarriesFrame ==
    (/\ Returned("from_frame")
     /\ Arg.frame.message_type \in {None, Some("event")}
     /\ \/ Arg.frame.event_type = None
        \/ Unwrap(Arg.frame.event_type) \notin KnownEventTypes) =>
        /\ Ret.ok
        /\ Ret.event.type = "Unknown"
        /\ "event_type" \in DOMAIN Ret.event
        /\ "payload" \in DOMAIN Ret.event
        /\ Ret.event.event_type = unwrap_or(Arg.frame.event_type, "unknown")
        /\ Ret.event.payload = Arg.frame.payload.bytes

IsAscii(bytes) == \A i \in 1 .. Len(bytes) : bytes[i] < 128

\* C23: for an error frame, and for an exception frame, from_frame never
\* fails whatever the payload bytes: the Error holds the :error-code header
\* or "UnknownError", the Exception the :exception-type header or
\* "UnknownException", and the message is the payload as lossy UTF-8 (the
\* payload itself when it is ASCII, never longer than the payload, and
\* with U+FFFD exactly when the payload is not well-formed), whether or not
\* the payload is JSON.
C23_ErrorFramesNeverFail ==
    (Returned("from_frame")
     /\ Arg.frame.message_type \in {Some("error"), Some("exception")}) =>
        LET f == Arg.frame
            e == Ret.event
            text == IF e.type = "Error" THEN e.error_message ELSE e.message
        IN  /\ Ret.ok
            /\ f.message_type = Some("error") =>
                  /\ e.type = "Error"
                  /\ e.error_code = IF IsSome(f.error_code) THEN Unwrap(f.error_code)
                                    ELSE "UnknownError"
            /\ f.message_type = Some("exception") =>
                  /\ e.type = "Exception"
                  /\ e.exception_type =
                        IF IsSome(f.exception_type) THEN Unwrap(f.exception_type)
                        ELSE "UnknownException"
            /\ text = from_utf8_lossy(f.payload.bytes)
            /\ IsAscii(f.payload.bytes) => text = f.payload.bytes
            /\ Len(text) <= Len(f.payload.bytes)
            /\ f.payload.bytes = << 226, 130, 172 >> => text = << 8364 >>
            /\ f.payload.bytes = << 195, 40 >> => text = << REPLACEMENT_CHARACTER, 40 >>
            /\ f.payload.bytes = << 104, 240, 159 >> => text = << 104, REPLACEMENT_CHARACTER >>

\* An error frame with no :error-code header and a payload that is neither
\* JSON nor UTF-8 was turned into an Error.
C23_Witness ==
    /\ Returned("from_frame")
    /\ Arg.frame.message_type = Some("error")
    /\ Arg.frame.error_code = None
    /\ Arg.frame.payload.bytes = << 255 >>
    /\ Ret.ok
    /\ Ret.event.error_code = "UnknownError"
    /\ Ret.event.error_message = << REPLACEMENT_CHARACTER >>

\* ------------------------------------ the machine id (kiro/machine_id.rs)
\* A string is the sequence of its code points; str.len() is the length of
\* its UTF-8 encoding in bytes.
len_utf8(c) == IF c < 128 THEN 1 ELSE IF c < 2048 THEN 2 ELSE IF c < 65536 THEN 3 ELSE 4
RECURSIVE len(_)
len(s) == IF s = << >> THEN 0 ELSE len_utf8(Head(s)) + len(Tail(s))
is_empty(s) == s = << >>
starts_with(s, prefix) ==
    Len(s) >= Len(prefix) /\ SubSeq(s, 1, Len(prefix)) = prefix
contains(s, part) ==
    \E i \in 1 .. Len(s) - Len(part) + 1 : SubSeq(s, i, i + Len(part) - 1) = part
Repeat(c, n) == [i \in 1 .. n |-> c]

MachineIdLen == 64
KotlinNativeAPI == << 75, 111, 116, 108, 105, 110, 78, 97, 116, 105, 118, 101, 65, 80, 73, 47 >>
ArnAws == << 97, 114, 110, 58, 97, 119, 115 >>
ProfileSlash == << 112, 114, 111, 102, 105, 108, 101, 47 >>

\* What generate_from_credentials returns is a string given to it (chars)
\* or sha256_hex of one.  SHA-256 is not computed: the digest of an input
\* stands for the 64 lower-case hexadecimal digits hex::encode makes of
\* it, the same for the same input.
Str(chars) == [digest |-> FALSE, chars |-> chars]
sha256_hex(input) == [digest |-> TRUE, chars |-> input]

is_valid_profile_arn(profile_arn) ==
    /\ ~ is_empty(profile_arn)
    /\ starts_with(profile_arn, ArnAws)
    /\ contains(profile_arn, ProfileSlash)

generate_from_credentials(credentials, config) ==
    IF IsSome(config.machine_id) /\ len(Unwrap(config.machine_id)) = MachineIdLen
    THEN Some(Str(Unwrap(config.machine_id)))
    ELSE IF IsSome(credentials.profile_arn)
            /\ is_valid_profile_arn(Unwrap(credentials.profile_arn))
    THEN Some(sha256_hex(KotlinNativeAPI \o Unwrap(credentials.profile_arn)))
    ELSE IF IsSome(credentials.refresh_token)
            /\ ~ is_empty(Unwrap(credentials.refresh_token))
    THEN Some(sha256_hex(KotlinNativeAPI \o Unwrap(credentials.refresh_token)))
    ELSE None

\* The overrides a config can hold: none, 64 times "a", 64 times "z", 63
\* times "a", the empty string, and 32 times U+00E9, which is 64 bytes.
\* The profile ARNs: none, a valid one, "invalid", the empty string,
\* "arn:aws:sso::1", and "an arn:aws profile/".  The refresh tokens: none,
\* the empty string and "rt".
MachineIdOverrides ==
    {None, Some(Repeat(97, 64)), Some(Repeat(122, 64)), Some(Repeat(97, 63)),
     Some(<< >>), Some(Repeat(233, 32))}
ValidArn ==
    << 97, 114, 110, 58, 97, 119, 115, 58, 115, 115, 111, 58, 58, 49, 58,
       112, 114, 111, 102, 105, 108, 101, 47, 116 >>
ProfileArns ==
    {None, Some(ValidArn), Some(<< 105, 110, 118, 97, 108, 105, 100 >>), Some(<< >>),
     Some(<< 97, 114, 110, 58, 97, 119, 115, 58, 115, 115, 111, 58, 58, 49 >>),
     Some(<< 97, 110, 32, 97, 114, 110, 58, 97, 119, 115, 32,
             112, 114, 111, 102, 105, 108, 101, 47 >>)}
RefreshTokens == {None, Some(<< >>), Some(<< 114, 116 >>)}

MachineIdInit ==
    /\ FnQuiet
    /\ \E m \in MachineIdOverrides, a \in ProfileArns, t \in RefreshTokens :
          call = Some([fn |-> "generate_from_credentials",
                       credentials |-> [profile_arn |-> a, refresh_token |-> t],
                       config |-> [machine_id |-> m]])
    /\ ret = None

MachineIdGenerate ==
    /\ Called("generate_from_credentials")
    /\ ret = None
    /\ ret' = Some(generate_from_credentials(Arg.credentials, Arg.config))
    /\ UNCHANGED << call, notFn >>

MachineIdNext == MachineIdGenerate

SpecMachineId == MachineIdInit /\ [][MachineIdNext]_vars

\* The code points of 0-9, a-f and A-F.
HexDigits == (48 .. 57) \cup (97 .. 102) \cup (65 .. 70)
Is64Hex(s) == Len(s) = 64 /\ \A i \in 1 .. Len(s) : s[i] \in HexDigits

\* C24: generate_from_credentials returns the config's machine_id as it is
\* only when that is exactly 64 hexadecimal characters; otherwise
\* sha256_hex of "KotlinNativeAPI/" and the profile ARN when the ARN starts
\* with arn:aws and contains profile/; otherwise sha256_hex of
\* "KotlinNativeAPI/" and the refresh token when that is not empty;
\* otherwise None.  Every value returned is 64 hexadecimal characters.
C24_MachineIdOrder ==
    Returned("generate_from_credentials") =>
        LET m == Arg.config.machine_id
            a == Arg.credentials.profile_arn
            t == Arg.credentials.refresh_token
            expected ==
                IF IsSome(m) /\ Is64Hex(Unwrap(m)) THEN Some(Str(Unwrap(m)))
                ELSE IF IsSome(a) /\ starts_with(Unwrap(a), ArnAws)
                        /\ contains(Unwrap(a), ProfileSlash)
                THEN Some(sha256_hex(KotlinNativeAPI \o Unwrap(a)))
                ELSE IF IsSome(t) /\ Unwrap(t) /= << >>
                THEN Some(sha256_hex(KotlinNativeAPI \o Unwrap(t)))
                ELSE None
        IN  /\ Ret = expected
            /\ IsSome(Ret) => Unwrap(Ret).digest \/ Is64Hex(Unwrap(Ret).chars)

\* ------------------------------- API key check (anthropic/middleware.rs)
MaxKeyLen == 2

RECURSIVE BitOr(_, _)
BitOr(a, b) ==
    IF a = 0 THEN b
    ELSE IF b = 0 THEN a
    ELSE (IF a % 2 = 1 \/ b % 2 = 1 THEN 1 ELSE 0) + 2 * BitOr(a \div 2, b \div 2)

\* bytes.get(i).copied().unwrap_or(0), positions counted from 1
get_or_0(bytes, i) == IF i <= Len(bytes) THEN bytes[i] ELSE 0

\* The loop of constant_time_eq, had it stopped at the first difference.
RECURSIVE or_xor_loop_early_exit(_, _, _, _, _, _)
or_xor_loop_early_exit(a, b, i, n, acc, steps) ==
    IF i > n THEN [acc |-> acc, steps |-> steps]
    ELSE LET d == Xor8[get_or_0(a, i)][get_or_0(b, i)]
         IN  IF d /= 0 THEN [acc |-> d, steps |-> steps + 1]
             ELSE or_xor_loop_early_exit(a, b, i + 1, n, acc, steps + 1)
\* The loops of constant_time_eq: acc |= x ^ y at the positions i .. n.
\* steps counts the bytes compared.
RECURSIVE or_xor_loop(_, _, _, _, _, _)
or_xor_loop(a, b, i, n, acc, steps) ==
    IF i > n THEN [acc |-> acc, steps |-> steps]
    ELSE or_xor_loop(a, b, i + 1, n,
                     BitOr(acc, Xor8[get_or_0(a, i)][get_or_0(b, i)]), steps + 1)

\* constant_time_eq with the number of bytes it compared.
constant_time_eq_run(a, b) ==
    IF Len(a) /= Len(b)
    THEN LET max_len == IF Len(a) > Len(b) THEN Len(a) ELSE Len(b)
             dummy == or_xor_loop(a, b, 1, max_len, 0, 0)
         IN  [result |-> FALSE, steps |-> dummy.steps]
    ELSE LET zip == or_xor_loop(a, b, 1, Len(a), 0, 0)
         IN  [result |-> zip.acc = 0, steps |-> zip.steps]
constant_time_eq(a, b) == constant_time_eq_run(a, b).result

\* HeaderValue::to_str: the value when all its bytes are visible ASCII.
to_str(v) ==
    IF \A i \in 1 .. Len(v) : v[i] = 9 \/ (v[i] >= 32 /\ v[i] <= 126)
    THEN Some(v) ELSE None
Bearer == << 66, 101, 97, 114, 101, 114, 32 >>
strip_prefix(s, prefix) ==
    IF starts_with(s, prefix) THEN Some(SubSeq(s, Len(prefix) + 1, Len(s))) ELSE None
\* Option::and_then
and_then(o, f(_)) == IF IsSome(o) THEN f(Unwrap(o)) ELSE None
strip_bearer(v) == strip_prefix(v, Bearer)

\* extract_api_key, had it taken the Authorization value without the prefix too.
extract_api_key_any_authorization(request) ==
    LET key == and_then(request.x_api_key, to_str)
        auth == and_then(request.authorization, to_str)
    IN  IF IsSome(key) THEN key
        ELSE IF IsSome(and_then(auth, strip_bearer)) THEN and_then(auth, strip_bearer)
        ELSE auth
\* extract_api_key, had it looked at Authorization first.
extract_api_key_bearer_first(request) ==
    LET bearer == and_then(and_then(request.authorization, to_str), strip_bearer)
    IN  IF IsSome(bearer) THEN bearer
        ELSE and_then(request.x_api_key, to_str)
\* extract_api_key: the request's headers are its x-api-key and
\* Authorization values, when it has them.
extract_api_key(request) ==
    LET key == and_then(request.x_api_key, to_str)
    IN  IF IsSome(key) THEN key
        ELSE and_then(and_then(request.authorization, to_str), strip_bearer)

Unauthorized ==
    [status |-> 401, error_type |-> "authentication_error",
     message |-> "Invalid API key", handler |-> FALSE]

\* auth_middleware: next.run(request) hands the request to its handler,
\* whose response is not modelled.
auth_middleware(state, request) ==
    LET key == extract_api_key(request)
    IN  IF IsSome(key) /\ constant_time_eq(Unwrap(key), state.api_key)
        THEN [status |-> 0, error_type |-> "", message |-> "", handler |-> TRUE]
        ELSE Unauthorized

\* The configured keys "sk" and "s"; the x-api-key values none, "sk", "sx",
\* "s", "skk", the empty value and a value that is not ASCII; the
\* Authorization values none, "Bearer sk", "sk", "bearer sk", "Bearer sx",
\* "Bearer " and a value that is not ASCII.
ApiKeys == {<< 115, 107 >>, << 115 >>}
XApiKeyValues ==
    {None, Some(<< 115, 107 >>), Some(<< 115, 120 >>), Some(<< 115 >>),
     Some(<< 115, 107, 107 >>), Some(<< >>), Some(<< 255 >>)}
AuthorizationValues ==
    {None, Some(Bearer \o << 115, 107 >>), Some(<< 115, 107 >>),
     Some(<< 98, 101, 97, 114, 101, 114, 32, 115, 107 >>),
     Some(Bearer \o << 115, 120 >>), Some(Bearer), Some(<< 255 >>)}

AuthInit ==
    /\ FnQuiet
    /\ \E k \in ApiKeys, x \in XApiKeyValues, a \in AuthorizationValues :
          call = Some([fn |-> "auth_middleware",
                       state |-> [api_key |-> k],
                       request |-> [x_api_key |-> x, authorization |-> a]])
    /\ ret = None

AuthMiddleware ==
    /\ Called("auth_middleware")
    /\ ret = None
    /\ ret' = Some(auth_middleware(Arg.state, Arg.request))
    /\ UNCHANGED << call, notFn >>

AuthNext == AuthMiddleware

SpecAuth == AuthInit /\ [][AuthNext]_vars

\* C25: a request reaches its handler exactly when the key extracted from
\* it (the x-api-key value, else the Authorization value after "Bearer ")
\* is the configured key byte for byte; every other request gets 401 with
\* the authentication_error body and its handler is not invoked: a request
\* with neither header, one with a wrong key, and one whose Authorization
\* value has no "Bearer " prefix.
C25_HandlerOnlyWithKey ==
    Returned("auth_middleware") =>
        LET x == Arg.request.x_api_key
            a == Arg.request.authorization
            api_key == Arg.state.api_key
            key == extract_api_key(Arg.request)
        IN  /\ Ret.handler <=> (IsSome(key) /\ Unwrap(key) = api_key)
            /\ ~ Ret.handler => Ret = Unauthorized
            /\ (x = None /\ a = None) => ~ Ret.handler
            /\ (IsSome(x) /\ IsSome(to_str(Unwrap(x))) /\ Unwrap(x) /= api_key)
                  => ~ Ret.handler
            /\ (x = None /\ IsSome(a) /\ ~ starts_with(Unwrap(a), Bearer))
                  => ~ Ret.handler
            /\ (x = None /\ a = Some(Bearer \o api_key)) => Ret.handler
            /\ x = Some(api_key) => Ret.handler

\* A request with the right key after "Bearer " reached its handler.
C25_Witness ==
    /\ Returned("auth_middleware")
    /\ Arg.request.x_api_key = None
    /\ Arg.request.authorization = Some(Bearer \o Arg.state.api_key)
    /\ Ret.handler

\* constant_time_eq on two pairs of strings.
KeyBytes == {115, 107}
KeyStrings == UNION {[1 .. n -> KeyBytes] : n \in 0 .. MaxKeyLen}

EqInit ==
    /\ FnQuiet
    /\ \E a \in KeyStrings, b \in KeyStrings, a2 \in KeyStrings, b2 \in KeyStrings :
          call = Some([fn |-> "constant_time_eq", a |-> a, b |-> b, a2 |-> a2, b2 |-> b2])
    /\ ret = None

EqCompare ==
    /\ Called("constant_time_eq")
    /\ ret = None
    /\ ret' = Some(<< constant_time_eq_run(Arg.a, Arg.b),
                      constant_time_eq_run(Arg.a2, Arg.b2) >>)
    /\ UNCHANGED << call, notFn >>

EqNext == EqCompare

SpecEq == EqInit /\ [][EqNext]_vars

\* C26: constant_time_eq(a, b) is true exactly when a and b are the same
\* bytes, and two calls whose arguments have the same lengths compare the
\* same number of bytes, wherever the arguments first differ and whether
\* they differ at all; with arguments of one length every byte is compared.
C26_ConstantTime ==
    Returned("constant_time_eq") =>
        /\ Ret[1].result <=> (Arg.a = Arg.b)
        /\ Ret[2].result <=> (Arg.a2 = Arg.b2)
        /\ (Len(Arg.a) = Len(Arg.a2) /\ Len(Arg.b) = Len(Arg.b2))
              => Ret[1].steps = Ret[2].steps
        /\ Len(Arg.a) = Len(Arg.b) => Ret[1].steps = Len(Arg.a)

\* Two pairs of two-byte strings were compared, one pair differing at the
\* first byte and the other at the second, in the same number of steps.
C26_Witness ==
    /\ Returned("constant_time_eq")
    /\ Arg.a = << 115, 107 >> /\ Arg.b = << 115, 115 >>
    /\ Arg.a2 = << 115, 107 >> /\ Arg.b2 = << 107, 107 >>
    /\ ~ Ret[1].result /\ ~ Ret[2].result
    /\ Ret[1].steps = 2 /\ Ret[2].steps = 2

\* ---------------------------------------- the token estimator (token.rs)
MaxRuns == 2

\* is_non_western_char, on a code point
is_non_western_char(c) ==
    ~ \/ (c >= 0 /\ c <= 127)
      \/ (c >= 128 /\ c <= 255)
      \/ (c >= 256 /\ c <= 591)
      \/ (c >= 7680 /\ c <= 7935)
      \/ (c >= 11360 /\ c <= 11391)
      \/ (c >= 42784 /\ c <= 43007)
      \/ (c >= 43824 /\ c <= 43887)

\* A text is kept as its runs, each a character c repeated n times, so
\* that texts of thousands of characters are values.  char_units is the
\* sum over text.chars() of 4.0 or 1.0.
RECURSIVE char_units(_)
char_units(text) ==
    IF text = << >> THEN 0
    ELSE Head(text).n * (IF is_non_western_char(Head(text).c) THEN 4 ELSE 1)
         + char_units(Tail(text))

\* The f64 factor count_tokens applies to tokens = char_units / 4.0, as
\* the fraction num / den it is written as.  The comparisons are of
\* char_units with 4 times the threshold: char_units / 4.0 is exact.
scale(char_units_) ==
    IF char_units_ < 4 * 100 THEN [num |-> 15, den |-> 10]
    ELSE IF char_units_ < 4 * 200 THEN [num |-> 13, den |-> 10]
    ELSE IF char_units_ < 4 * 300 THEN [num |-> 125, den |-> 100]
    ELSE IF char_units_ < 4 * 800 THEN [num |-> 12, den |-> 10]
    ELSE [num |-> 10, den |-> 10]

\* count_tokens, had it rounded to the nearest token as its comment says.
count_tokens_rounded(text) ==
    LET u == char_units(text)
        s == scale(u)
    IN  (2 * u * s.num + 4 * s.den) \div (8 * s.den)
\* count_tokens: (tokens * factor) as u64 truncates.  The product is
\* computed exactly here; in f64 the factors 1.5, 1.25 and 1.0 give exact
\* products, and 1.3 and 1.2 are off by less than half a unit in the last
\* place of the product, so a product that is a whole number in exact
\* arithmetic rounds to that number and no other product crosses one.
count_tokens(text) ==
    LET u == char_units(text)
        s == scale(u)
    IN  (u * s.num) \div (4 * s.den)

\* The characters "a", U+024F, U+0250, U+1E00 and U+4E2D, and how many
\* times one is repeated in a run.
SampleChars == {97, 591, 592, 7680, 20013}
SampleCounts == {1, 3, 100, 200, 300, 399, 799, 800}
TextRuns == [c : SampleChars, n : SampleCounts]
Texts == UNION {[1 .. k -> TextRuns] : k \in 0 .. MaxRuns}

\* A request as the estimator reads it.  system: Option<Vec<SystemMessage>>.
\* A message content is a JSON string, a JSON array whose items have a
\* text member that is a string (Some) or have none (None), or another
\* JSON value.  A tool's input_schema is kept as the text
\* serde_json::to_string makes of it.
StringContent(s) == [kind |-> "String", s |-> s, arr |-> << >>]
ArrayContent(arr) == [kind |-> "Array", s |-> << >>, arr |-> arr]
OtherContent == [kind |-> "Null", s |-> << >>, arr |-> << >>]

RECURSIVE system_tokens(_)
system_tokens(system) ==
    IF system = << >> THEN 0
    ELSE count_tokens(Head(system).text) + system_tokens(Tail(system))

RECURSIVE array_tokens(_)
array_tokens(arr) ==
    IF arr = << >> THEN 0
    ELSE (IF IsSome(Head(arr).text) THEN count_tokens(Unwrap(Head(arr).text)) ELSE 0)
         + array_tokens(Tail(arr))

RECURSIVE messages_tokens(_)
messages_tokens(messages) ==
    IF messages = << >> THEN 0
    ELSE LET content == Head(messages).content
         IN  (CASE content.kind = "String" -> count_tokens(content.s)
                [] content.kind = "Array"  -> array_tokens(content.arr)
                [] OTHER                   -> 0)
             + messages_tokens(Tail(messages))

RECURSIVE tools_tokens(_)
tools_tokens(tools) ==
    IF tools = << >> THEN 0
    ELSE count_tokens(Head(tools).name) + count_tokens(Head(tools).description)
         + count_tokens(Head(tools).input_schema) + tools_tokens(Tail(tools))

\* count_all_tokens_local without its last line.
count_all_tokens_local_no_floor(system, messages, tools) ==
    (IF IsSome(system) THEN system_tokens(Unwrap(system)) ELSE 0)
    + messages_tokens(messages)
    + (IF IsSome(tools) THEN tools_tokens(Unwrap(tools)) ELSE 0)
\* count_all_tokens_local
count_all_tokens_local(system, messages, tools) ==
    LET total == (IF IsSome(system) THEN system_tokens(Unwrap(system)) ELSE 0)
                 + messages_tokens(messages)
                 + (IF IsSome(tools) THEN tools_tokens(Unwrap(tools)) ELSE 0)
    IN  IF total > 1 THEN total ELSE 1

\* estimate_output_tokens: a block has a text member that is a string or
\* not, a type, and an input member (kept as its serialized text) or not.
RECURSIVE blocks_tokens(_)
blocks_tokens(content) ==
    IF content = << >> THEN 0
    ELSE LET block == Head(content)
         IN  (IF IsSome(block.text) THEN count_tokens(Unwrap(block.text)) ELSE 0)
             + (IF block.type = "tool_use" /\ IsSome(block.input)
                THEN count_tokens(Unwrap(block.input)) ELSE 0)
             + blocks_tokens(Tail(content))
estimate_output_tokens(content) ==
    LET total == blocks_tokens(content)
    IN  IF total > 1 THEN total ELSE 1

\* call_remote_count_tokens ends in one of these ways.
RemoteFailures == {"build_client", "send", "status", "json"}
RemoteErr(e) == [ok |-> FALSE, error |-> e, input_tokens |-> 0]
RemoteOk(n) == [ok |-> TRUE, error |-> "", input_tokens |-> n]

\* count_all_tokens, had it given up when the remote call fails.
count_all_tokens_no_fallback(config, remote, system, messages, tools) ==
    IF IsSome(config) /\ IsSome(Unwrap(config).api_url)
    THEN [value |-> remote.input_tokens, remote_calls |-> 1]
    ELSE [value |-> count_all_tokens_local(system, messages, tools), remote_calls |-> 0]
\* count_all_tokens: config is what get_config() returns, remote what
\* call_remote_count_tokens returns if it is called.  The value returned,
\* and how many remote calls were made.
count_all_tokens(config, remote, system, messages, tools) ==
    IF IsSome(config) /\ IsSome(Unwrap(config).api_url)
    THEN IF remote.ok
         THEN [value |-> remote.input_tokens, remote_calls |-> 1]
         ELSE [value |-> count_all_tokens_local(system, messages, tools),
               remote_calls |-> 1]
    ELSE [value |-> count_all_tokens_local(system, messages, tools), remote_calls |-> 0]

\* Sample texts: the empty text, "a" (no token), "aaa" (one token), U+4E2D
\* a hundred times, and "{}".
NoText == << >>
TextA == << [c |-> 97, n |-> 1] >>
TextAaa == << [c |-> 97, n |-> 3] >>
TextHan == << [c |-> 20013, n |-> 100] >>
TextBraces == << [c |-> 123, n |-> 1], [c |-> 125, n |-> 1] >>

SampleSystems ==
    {None, Some(<< >>), Some(<< [text |-> TextAaa] >>),
     Some(<< [text |-> TextA], [text |-> TextHan] >>)}
SampleMessages ==
    {<< >>,
     << [content |-> StringContent(TextAaa)] >>,
     << [content |-> ArrayContent(<< [text |-> Some(TextAaa)], [text |-> None] >>)] >>,
     << [content |-> OtherContent] >>,
     << [content |-> StringContent(TextA)],
        [content |-> ArrayContent(<< [text |-> Some(TextHan)] >>)] >>}
SampleTools ==
    {None, Some(<< >>),
     Some(<< [name |-> TextAaa, description |-> TextHan, input_schema |-> TextBraces] >>)}
SampleRequests == [system : SampleSystems, messages : SampleMessages, tools : SampleTools]
SampleContents ==
    {<< >>,
     << [text |-> Some(NoText), type |-> "text", input |-> None] >>,
     << [text |-> Some(TextHan), type |-> "text", input |-> None] >>,
     << [text |-> None, type |-> "tool_use", input |-> Some(TextBraces)] >>,
     << [text |-> None, type |-> "tool_use", input |-> None] >>,
     << [text |-> Some(TextAaa), type |-> "text", input |-> Some(TextHan)],
        [text |-> None, type |-> "tool_use", input |-> Some(TextAaa)] >>}
SampleConfigs ==
    {None, Some([api_url |-> None]), Some([api_url |-> Some("https://count.example")])}
RemoteOutcomes == {RemoteErr(e) : e \in RemoteFailures} \cup {RemoteOk(n) : n \in {0, 7}}

EstInit ==
    /\ FnQuiet
    /\ \/ \E text \in Texts : call = Some([fn |-> "count_tokens", text |-> text])
       \/ \E r \in SampleRequests : call = Some([fn |-> "count_all_tokens_local", request |-> r])
       \/ \E c \in SampleContents : call = Some([fn |-> "estimate_output_tokens", content |-> c])
       \/ \E g \in SampleConfigs, r \in SampleRequests :
             call = Some([fn |-> "count_all_tokens", config |-> g, request |-> r])
    /\ ret = None

EstCountTokens ==
    /\ Called("count_tokens")
    /\ ret = None
    /\ ret' = Some(count_tokens(Arg.text))
    /\ UNCHANGED << call, notFn >>

EstCountLocal ==
    /\ Called("count_all_tokens_local")
    /\ ret = None
    /\ ret' = Some(count_all_tokens_local(Arg.request.system, Arg.request.messages,
                                          Arg.request.tools))
    /\ UNCHANGED << call, notFn >>

EstOutput ==
    /\ Called("estimate_output_tokens")
    /\ ret = None
    /\ ret' = Some(estimate_output_tokens(Arg.content))
    /\ UNCHANGED << call, notFn >>

\* count_all_tokens; the remote call, if one is made, ends as remote.
EstCountAll(remote) ==
    /\ Called("count_all_tokens")
    /\ ret = None
    /\ ret' = Some([remote |-> remote] @@
                   count_all_tokens(Arg.config, remote, Arg.request.system,
                                    Arg.request.messages, Arg.request.tools))
    /\ UNCHANGED << call, notFn >>

EstNext ==
    \/ EstCountTokens
    \/ EstCountLocal
    \/ EstOutput
    \/ \E remote \in RemoteOutcomes : EstCountAll(remote)

SpecEstimator == EstInit /\ [][EstNext]_vars

\* The Western characters of the estimator's contract, and the numbers of
\* Western and of other characters of a text.
Western(c) ==
    c \in (0 .. 591) \cup (7680 .. 7935) \cup (11360 .. 11391)
          \cup (42784 .. 43007) \cup (43824 .. 43887)
RECURSIVE CountChars(_, _)
CountChars(text, western) ==
    IF text = << >> THEN 0
    ELSE (IF Western(Head(text).c) = western THEN Head(text).n ELSE 0)
         + CountChars(Tail(text), western)

RECURSIVE Flatten(_)
Flatten(seqs) == IF seqs = << >> THEN << >> ELSE Head(seqs) \o Flatten(Tail(seqs))
ContentTexts(content) ==
    CASE content.kind = "String" -> << content.s >>
      [] content.kind = "Array" ->
            LET with == SelectSeq(content.arr, LAMBDA item : IsSome(item.text))
            IN  [i \in 1 .. Len(with) |-> Unwrap(with[i].text)]
      [] OTHER -> << >>
RequestTexts(r) ==
    (IF IsSome(r.system)
     THEN [i \in 1 .. Len(Unwrap(r.system)) |-> Unwrap(r.system)[i].text] ELSE << >>)
    \o Flatten([i \in 1 .. Len(r.messages) |-> ContentTexts(r.messages[i].content)])
    \o (IF IsSome(r.tools)
        THEN Flatten([i \in 1 .. Len(Unwrap(r.tools)) |->
                        << Unwrap(r.tools)[i].name, Unwrap(r.tools)[i].description,
                           Unwrap(r.tools)[i].input_schema >>])
        ELSE << >>)
RECURSIVE SumTokens(_)
SumTokens(texts) ==
    IF texts = << >> THEN 0 ELSE count_tokens(Head(texts)) + SumTokens(Tail(texts))

\* C28: the local request estimate is the sum of count_tokens over every
\* system text, every message content that is a string, every text member
\* of a content array, and each tool's name, description and serialized
\* input schema, or 1 when that sum is 0; it is at least 1 for every
\* request, and so is the output estimate for every content.
C28_LocalEstimate ==
    /\ Returned("count_all_tokens_local") =>
          LET sum == SumTokens(RequestTexts(Arg.request))
          IN  /\ Ret >= 1
              /\ Ret = IF sum = 0 THEN 1 ELSE sum
    /\ Returned("estimate_output_tokens") => Ret >= 1

\* A request with no system text, no message and no tool was estimated at 1.
C28_Witness ==
    /\ Returned("count_all_tokens_local")
    /\ Arg.request.system = None
    /\ Arg.request.messages = << >>
    /\ Arg.request.tools = None
    /\ Ret = 1

\* C29: count_all_tokens always returns a count: with no remote endpoint
\* configured the local estimate and no remote call; with one configured
\* the remote value when the call succeeds and the local estimate when it
\* fails, however it fails.
C29_RemoteOrLocal ==
    Returned("count_all_tokens") =>
        LET local == count_all_tokens_local(Arg.request.system, Arg.request.messages,
                                            Arg.request.tools)
            configured == IsSome(Arg.config) /\ IsSome(Unwrap(Arg.config).api_url)
        IN  /\ Ret.value \in Nat
            /\ ~ configured => Ret.value = local /\ Ret.remote_calls = 0
            /\ (configured /\ Ret.remote.ok) =>
                  Ret.value = Ret.remote.input_tokens /\ Ret.remote_calls = 1
            /\ (configured /\ ~ Ret.remote.ok) => Ret.value = local /\ Ret.value >= 1

\* With a remote endpoint configured, the call got a non-2xx status and
\* the local estimate of the request was returned.
C29_Witness ==
    /\ Returned("count_all_tokens")
    /\ IsSome(Arg.config) /\ IsSome(Unwrap(Arg.config).api_url)
    /\ Ret.remote = RemoteErr("status")
    /\ Arg.request.system = Some(<< [text |-> TextAaa] >>)
    /\ Arg.request.messages = << >>
    /\ Arg.request.tools = None
    /\ Ret.value = 1
    /\ Ret.remote_calls = 1

\* ------------------------- the thinking budget (anthropic/types.rs)
MAX_BUDGET_TOKENS == 24576
I32_MAX == 2147483647

Parsed(value) == [ok |-> TRUE, value |-> value]
Rejected(error) == [ok |-> FALSE, error |-> error]

\* A JSON value a client sends as budget_tokens: an integer an i32 holds
\* (I32), or one that i32::deserialize refuses.
I32(v) == [kind |-> "i32", v |-> v]
NotI32(kind) == [kind |-> kind, v |-> 0]

default_budget_tokens == 20000

\* deserialize_budget_tokens without the cap.
deserialize_budget_tokens_uncapped(json) ==
    IF json.kind /= "i32" THEN Rejected("invalid type")
    ELSE Parsed(json.v)
\* deserialize_budget_tokens
deserialize_budget_tokens(json) ==
    IF json.kind /= "i32" THEN Rejected("invalid type")
    ELSE Parsed(IF json.v < MAX_BUDGET_TOKENS THEN json.v ELSE MAX_BUDGET_TOKENS)

\* Deserialize for Thinking: type is required; budget_tokens is
\* default_budget_tokens() when the member is absent and goes through
\* deserialize_budget_tokens when it is there.
Thinking_deserialize(json) ==
    IF json.type = None THEN Rejected("missing field")
    ELSE IF json.budget_tokens = None
    THEN Parsed([thinking_type |-> Unwrap(json.type),
                 budget_tokens |-> default_budget_tokens])
    ELSE LET budget == deserialize_budget_tokens(Unwrap(json.budget_tokens))
         IN  IF budget.ok
             THEN Parsed([thinking_type |-> Unwrap(json.type),
                          budget_tokens |-> budget.value])
             ELSE budget

ThinkingTypes == {None, Some("enabled"), Some("disabled"), Some("adaptive")}
BudgetValues ==
    (-2 .. 2) \cup (19999 .. 20001) \cup (24574 .. 24578) \cup {I32_MAX, - I32_MAX}
BudgetMembers ==
    {None} \cup {Some(I32(v)) : v \in BudgetValues}
    \cup {Some(NotI32(k)) : k \in {"string", "null", "out of range"}}

ThinkingInit ==
    /\ FnQuiet
    /\ \E t \in ThinkingTypes, b \in BudgetMembers :
          call = Some([fn |-> "Thinking::deserialize",
                       json |-> [type |-> t, budget_tokens |-> b]])
    /\ ret = None

ThinkingDeserialize ==
    /\ Called("Thinking::deserialize")
    /\ ret = None
    /\ ret' = Some(Thinking_deserialize(Arg.json))
    /\ UNCHANGED << call, notFn >>

ThinkingNext == ThinkingDeserialize

SpecThinking == ThinkingInit /\ [][ThinkingNext]_vars

\* C30: the budget_tokens of every thinking configuration that is parsed
\* is at most 24576: a supplied integer v becomes v when v <= 24576 and
\* 24576 above that, and an omitted one becomes 20000; a configuration
\* with a type and an integer budget is always parsed.
C30_BudgetCapped ==
    Returned("Thinking::deserialize") =>
        LET b == Arg.json.budget_tokens
        IN  /\ Ret.ok =>
                  /\ Ret.value.budget_tokens <= 24576
                  /\ b = None => Ret.value.budget_tokens = 20000
                  /\ (IsSome(b) /\ Unwrap(b).v <= 24576)
                        => Ret.value.budget_tokens = Unwrap(b).v
                  /\ (IsSome(b) /\ Unwrap(b).v > 24576)
                        => Ret.value.budget_tokens = 24576
            /\ (IsSome(Arg.json.type) /\ (b = None \/ Unwrap(b).kind = "i32")) => Ret.ok

\* A budget of 24577 was parsed as 24576.
C30_Witness ==
    /\ Returned("Thinking::deserialize")
    /\ Arg.json.budget_tokens = Some(I32(24577))
    /\ Ret.ok
    /\ Ret.value.budget_tokens = 24576

\* ------------------------------------------- more on one account
\* C32: in every account state reached from Account::new by record_use,
\* record_error, mark_invalid, enable and disable, at any times, a status
\* of Cooldown comes with a cooldown_until that is set.
C32_CooldownHasDeadline ==
    acct.status = "Cooldown" => IsSome(acct.cooldown_until)

\* record_use was called on an account in Cooldown before its deadline:
\* is_available took the Cooldown branch and found the deadline there.
C32_Witness ==
    /\ lastOp.name = "record_use"
    /\ lastOp.pre = "Cooldown"
    /\ acct.status = "Cooldown"
    /\ IsSome(acct.cooldown_until)
    /\ Unwrap(acct.cooldown_until) > lastOp.at

\* C33: record_error(false) adds exactly 1 to error_count and changes
\* nothing else of the account, so the account is available at the same
\* times as before; no step makes request_count or error_count smaller;
\* enable, disable and mark_invalid change neither counter.
C33_ErrorFrame ==
    [][ /\ AcctRecordError(FALSE) =>
              /\ acct' = [acct EXCEPT !.error_count = @ + 1]
              /\ acct'.status = acct.status
              /\ acct'.cooldown_until = acct.cooldown_until
              /\ acct'.request_count = acct.request_count
              /\ acct'.last_used_at = acct.last_used_at
              /\ \A t \in Times : is_available(acct', t) <=> is_available(acct, t)
        /\ acct'.request_count >= acct.request_count
        /\ acct'.error_count >= acct.error_count
        /\ (AcctEnable \/ AcctDisable \/ AcctMarkInvalid) =>
              /\ acct'.request_count = acct.request_count
              /\ acct'.error_count = acct.error_count
      ]_vars

\* An account in Cooldown got an error that is no rate limit and is still
\* in Cooldown, with one more error counted.
C33_Witness ==
    /\ lastOp.name = "record_error"
    /\ lastOp.pre = "Cooldown"
    /\ acct.status = "Cooldown"
    /\ acct.error_count = 2
    /\ ~ is_available(acct, now)

\* C34: every record_error(true) sets cooldown_until to the time of the
\* call plus 5 minutes, also on an account already in Cooldown; the
\* deadline it sets is never earlier than the one it replaces, and from
\* that call on the account is available exactly from 5 minutes after it.
C34_CooldownRestarts ==
    [][ AcctRecordError(TRUE) =>
          /\ acct'.status = "Cooldown"
          /\ acct'.cooldown_until = Some(now + CooldownMinutes)
          /\ IsSome(acct.cooldown_until) =>
                Unwrap(acct'.cooldown_until) >= Unwrap(acct.cooldown_until)
          /\ \A t \in Times :
                t >= now => (is_available(acct', t) <=> t >= now + CooldownMinutes)
      ]_vars

\* A second rate-limit error reached an account in Cooldown after the
\* clock had moved, and the deadline is five minutes after the second.
C34_Witness ==
    /\ lastOp.name = "record_error_rate_limit"
    /\ lastOp.pre = "Cooldown"
    /\ lastOp.at >= 1
    /\ acct.error_count = 2
    /\ acct.cooldown_until = Some(lastOp.at + CooldownMinutes)
    /\ ~ is_available(acct, now)

\* C35: enable() changes an account only when its status is Disabled, and
\* then only the status, to Active, whatever cooldown_until holds: the
\* account is available at once.  On Active, Cooldown and Invalid accounts
\* it changes nothing.
C35_EnableOnlyDisabled ==
    [][ AcctEnable =>
          /\ acct.status = "Disabled" =>
                /\ acct' = [acct EXCEPT !.status = "Active"]
                /\ is_available(acct', now)
          /\ acct.status /= "Disabled" => acct' = acct
      ]_vars

\* An account was rate-limited, disabled and enabled: it is Active and
\* available although its cooldown_until is still ahead.
C35_Witness ==
    /\ lastOp.name = "enable"
    /\ lastOp.pre = "Disabled"
    /\ acct.status = "Active"
    /\ IsSome(acct.cooldown_until)
    /\ Unwrap(acct.cooldown_until) > now
    /\ is_available(acct, now)

\* ------------------------------------- what parse_frame reads (frame.rs)
\* The parts of the buffer parse_frame indexes or slices on the way to its
\* result, in order, each named and as the offsets [first, last) counted from 0: the
\* prelude words, buffer[..8], the message CRC word, buffer[..total - 4],
\* the header region and the payload.
Read(part, first, last) == [part |-> part, first |-> first, last |-> last]
parse_frame_reads(buf) ==
    IF Len(buf) < PRELUDE_SIZE THEN << >>
    ELSE
      LET total_length == from_be_bytes(buf, 0)
          header_length == from_be_bytes(buf, 4)
          prelude == << Read("total_length", 0, 4), Read("header_length", 4, 8),
                         Read("prelude_crc", 8, 12) >>
      IN  IF too_small(total_length) \/ too_large(total_length) THEN prelude
          ELSE IF Len(buf) < u32_value(total_length) THEN prelude
          ELSE
            LET total == u32_value(total_length)
                checked == prelude \o << Read("prelude", 0, 8) >>
                message == checked \o << Read("message_crc", total - 4, total),
                                            Read("message", 0, total - 4) >>
            IN  IF crc32(SubSeq(buf, 1, 8)) /= from_be_bytes(buf, 8) THEN checked
                ELSE IF crc32(SubSeq(buf, 1, total - 4)) /= from_be_bytes(buf, total - 4)
                THEN message
                ELSE IF headers_overrun(header_length, total) THEN message
                ELSE LET headers_end == PRELUDE_SIZE + u32_value(header_length)
                     IN  message \o << Read("headers", PRELUDE_SIZE, headers_end) >>
                         \o (IF parse_frame(buf).kind = "Some"
                             THEN << Read("payload", headers_end, total - 4) >> ELSE << >>)

\* The declared lengths of a buffer that holds a prelude.
DeclaredTotal(buf) == from_be_bytes(buf, 0)
DeclaredHeaders(buf) == from_be_bytes(buf, 4)

\* C36: for every buffer parse_frame returns None, a frame or an error,
\* and every part of the buffer it reads lies inside the buffer; a message
\* that passes the size and CRC checks and declares a header_length
\* greater than total_length - 16 is refused as HeaderParseFailed with the
\* header region not read; and a frame is returned with
\* 16 <= consumed <= buffer length.
C36_ReadsInsideBuffer ==
    (fpc = "parsed" /\ IsSome(result)) =>
        LET r == Unwrap(result)
            reads == parse_frame_reads(buffer)
        IN  /\ r.kind \in {"None", "Some", "Err"}
            /\ \A i \in 1 .. Len(reads) :
                  0 <= reads[i].first /\ reads[i].first <= reads[i].last
                  /\ reads[i].last <= Len(buffer)
            /\ how.kind = "overlong" =>
                  /\ r = Err("HeaderParseFailed")
                  /\ \A i \in 1 .. Len(reads) : reads[i].part /= "headers"
            /\ (Len(buffer) >= PRELUDE_SIZE /\ r.kind = "Some") =>
                  ~ u32_gt(DeclaredHeaders(buffer), u32_value(DeclaredTotal(buffer)) - 16)
            /\ r.kind = "Some" =>
                  /\ MIN_MESSAGE_SIZE <= r.consumed
                  /\ r.consumed <= Len(buffer)
                  /\ Len(reads) = 8

\* A message of 18 bytes with both checksums right that declares 255
\* header bytes was refused, and the smallest frame, 16 bytes, was
\* returned from a buffer that holds more.
C36_Witness ==
    /\ fpc = "parsed"
    /\ how.kind = "overlong"
    /\ Len(buffer) = 18
    /\ DeclaredHeaders(buffer) = U32Of(255)
    /\ result = Some(Err("HeaderParseFailed"))

\* ------------------------------------------- the lock and the upstream call
\* The steps of a caller taken with the token manager's guard in hand.
UnderLock == {"locked", "refreshing"}

\* C37: the token manager's lock is held by a caller only between lock()
\* and the return of acquire_token_snapshot, the refresh included; a caller
\* that has its snapshot, is sending or awaiting the upstream answer, or has
\* returned, does not hold it, so while one caller awaits the upstream any
\* idle caller can take the lock unless a caller still inside
\* acquire_token_snapshot has it.
C37_LockNotHeldUpstream ==
    /\ \A c \in Callers :
          /\ tmLock = Some(c) => cpc[c] \in UnderLock
          /\ cpc[c] \in {"snapshot", "sending", "responded", "failed"}
                => tmLock /= Some(c)
    /\ \A c, d \in Callers :
          ( /\ cpc[c] = "sending"
            /\ cpc[d] = "idle"
            /\ \A e \in Callers : cpc[e] \notin UnderLock )
          => ENABLED TokLock(d)

\* One caller awaits the upstream answer while a second has been given the
\* lock and a refreshed token and a third holds the lock now.
C37_Witness ==
    \E c, d, e \in Callers :
        /\ cpc[c] = "sending"
        /\ cpc[d] = "snapshot" /\ IsSome(got[d])
        /\ tmLock = Some(e) /\ cpc[e] = "locked"

\* --------------------------------------------- provider.rs: call_api
\* http::HeaderValue::from_str takes a string whose bytes are all 32 or
\* more and not 127, or a tab; the code points here are below 128 or stand
\* for bytes of 128 and more.
is_valid_header_byte(b) == (b >= 32 /\ b /= 127) \/ b = 9
HeaderValue_from_str(chars) ==
    IF \A i \in 1 .. Len(chars) : is_valid_header_byte(chars[i])
    THEN Some(chars) ELSE None

\* What the machine id contributes to a header value.
machine_id_chars(machine_id) ==
    IF machine_id.digest THEN << 104, 101, 120 >> ELSE machine_id.chars

\* build_headers: an error when no machine id can be derived; otherwise the
\* header map, of which the user agents and authorization are kept.  A
\* value HeaderValue::from_str refuses is unwrapped: a panic.
build_headers(token, credentials, config) ==
    LET machine_id == generate_from_credentials(credentials, config)
    IN  IF machine_id = None THEN Err("machine_id")
        ELSE LET agent == HeaderValue_from_str(machine_id_chars(Unwrap(machine_id)))
                 authorization == HeaderValue_from_str(Bearer \o token)
             IN  IF agent = None \/ authorization = None THEN [kind |-> "Panic"]
                 ELSE [kind |-> "Ok",
                       headers |-> [user_agent |-> Unwrap(agent),
                                    authorization |-> Unwrap(authorization)]]

\* acquire_token_snapshot: the token ensure_valid_token gives, or its
\* error, with the clones of config and credentials.
acquire_token_snapshot(tm) ==
    IF tm.token.kind = "Err" THEN tm.token
    ELSE [kind |-> "Ok", token |-> tm.token.token,
          config |-> tm.config, credentials |-> tm.credentials]

\* A redirect taken for a success as well.
is_success_below_400(status) == 200 <= status /\ status < 400

\* http::StatusCode::is_success
is_success(status) == 200 <= status /\ status < 300

\* response.text().await.unwrap_or_default()
unwrap_or_default(text) == IF IsSome(text) THEN Unwrap(text) ELSE << >>

\* The body shared by call_api and call_api_stream, which differ in the
\* words of the bail! message.  `upstream` is what send().await gives: a
\* response (Some) or a transport error (None).  `sent` counts the POSTs.
call_api_as(message, tm, upstream) ==
    LET snapshot == acquire_token_snapshot(tm)
    IN  IF snapshot.kind = "Err" THEN [result |-> snapshot, sent |-> 0]
        ELSE
          LET headers == build_headers(snapshot.token, snapshot.credentials,
                                       snapshot.config)
          IN  IF headers.kind /= "Ok" THEN [result |-> headers, sent |-> 0]
              ELSE IF upstream = None THEN [result |-> Err("send"), sent |-> 1]
              ELSE
                LET response == Unwrap(upstream)
                IN  IF ~ is_success(response.status)
                    THEN [result |-> Err([message |-> message,
                                          status |-> response.status,
                                          body |-> unwrap_or_default(response.text)]),
                          sent |-> 1]
                    ELSE [result |-> [kind |-> "Ok", response |-> response],
                          sent |-> 1]

call_api(tm, upstream) == call_api_as("API", tm, upstream)
call_api_stream(tm, upstream) == call_api_as("stream API", tm, upstream)

\* What ensure_valid_token gives: the token "t", a token with a line feed
\* in it, or an error.
TokenResults ==
    { [kind |-> "Ok", token |-> << 116 >>],
      [kind |-> "Ok", token |-> << 116, 10 >>],
      Err("token") }

\* Configs and credentials: with and without an override, a profile ARN
\* and a refresh token that a machine id can be derived from.
ProviderOverrides == {None, Some(Repeat(97, 64)), Some(Repeat(97, 63))}
ProviderArns == {None, Some(ValidArn), Some(<< >>)}
ProviderRefreshTokens == {None, Some(<< >>), Some(<< 114, 116 >>)}

\* The statuses and bodies of upstream responses; a body of None is one
\* that could not be read.
Statuses == {100, 199, 200, 204, 299, 300, 302, 400, 429, 500}
ResponseTexts == {None, Some(<< >>), Some(<< 123, 125 >>)}
UpstreamAnswers ==
    {None} \cup { Some([status |-> s, text |-> b]) : s \in Statuses, b \in ResponseTexts }

ProviderInit ==
    /\ FnQuiet
    /\ \E fn \in {"call_api", "call_api_stream"}, token \in TokenResults,
          m \in ProviderOverrides, a \in ProviderArns, t \in ProviderRefreshTokens,
          upstream \in UpstreamAnswers :
          call = Some([fn |-> fn,
                       tm |-> [token |-> token,
                               config |-> [machine_id |-> m],
                               credentials |-> [profile_arn |-> a, refresh_token |-> t]],
                       upstream |-> upstream])
    /\ ret = None

ProviderCallApi ==
    /\ Called("call_api")
    /\ ret = None
    /\ ret' = Some(call_api(Arg.tm, Arg.upstream))
    /\ UNCHANGED << call, notFn >>

ProviderCallApiStream ==
    /\ Called("call_api_stream")
    /\ ret = None
    /\ ret' = Some(call_api_stream(Arg.tm, Arg.upstream))
    /\ UNCHANGED << call, notFn >>

ProviderNext == ProviderCallApi \/ ProviderCallApiStream

SpecProvider == ProviderInit /\ [][ProviderNext]_vars

\* C38: call_api and call_api_stream send no upstream request and return
\* an error when the token cannot be obtained or when no machine id can
\* be derived from the credentials and config; a response whose status is
\* outside 200..299 is returned as an error that carries the status and
\* the body text; and what they return as Ok is a response with a status
\* in 200..299.
C38_NoSendWithoutTokenOrId ==
    (Returned("call_api") \/ Returned("call_api_stream")) =>
        LET tm == Arg.tm
            r == Ret.result
        IN  /\ ( tm.token.kind = "Err"
                 \/ generate_from_credentials(tm.credentials, tm.config) = None )
               => (Ret.sent = 0 /\ r.kind = "Err")
            /\ ( Ret.sent = 1 /\ IsSome(Arg.upstream)
                 /\ Unwrap(Arg.upstream).status \notin 200 .. 299 )
               => /\ r.kind = "Err"
                  /\ r.error.status = Unwrap(Arg.upstream).status
                  /\ IsSome(Unwrap(Arg.upstream).text)
                        => r.error.body = Unwrap(Unwrap(Arg.upstream).text)
            /\ r.kind = "Ok"
               => /\ Ret.sent = 1
                  /\ IsSome(Arg.upstream)
                  /\ r.response = Unwrap(Arg.upstream)
                  /\ r.response.status \in 200 .. 299

\* call_api was given a valid token, but a config with no usable override
\* and credentials with neither a valid profile ARN nor a refresh token:
\* it returned the machine id error and nothing was sent.
C38_Witness ==
    /\ Returned("call_api")
    /\ Arg.tm.token.kind = "Ok"
    /\ Arg.tm.config.machine_id = Some(Repeat(97, 63))
    /\ Arg.tm.credentials = [profile_arn |-> Some(<< >>), refresh_token |-> None]
    /\ IsSome(Arg.upstream)
    /\ Ret = [result |-> Err("machine_id"), sent |-> 0]

\* ------------------------------------------- x-api-key before Authorization
\* The key after "Bearer " in an Authorization value that is text.
BearerKey(a) == and_then(and_then(a, to_str), strip_bearer)

\* C39: when the request has an x-api-key value that is text, that value
\* alone decides: the handler runs exactly when it is the configured key,
\* whatever Authorization holds, and a wrong x-api-key gets 401 also with
\* the right key after "Bearer "; Authorization decides only when x-api-key
\* is absent or is not text.
C39_XApiKeyFirst ==
    Returned("auth_middleware") =>
        LET x == Arg.request.x_api_key
            a == Arg.request.authorization
            api_key == Arg.state.api_key
            text == IsSome(x) /\ IsSome(to_str(Unwrap(x)))
        IN  /\ text => (Ret.handler <=> Unwrap(x) = api_key)
            /\ (text /\ Unwrap(x) /= api_key /\ a = Some(Bearer \o api_key))
                  => Ret = Unauthorized
            /\ ~ text => (Ret.handler <=> BearerKey(a) = Some(api_key))

\* A request with a wrong x-api-key and the configured key after "Bearer "
\* was answered 401.
C39_Witness ==
    /\ Returned("auth_middleware")
    /\ Arg.request.x_api_key = Some(<< 115, 120 >>)
    /\ Arg.request.authorization = Some(Bearer \o Arg.state.api_key)
    /\ Ret = Unauthorized

\* ------------------------------------ the request converter (spec 4.6)
MaxMessages == 3

\* conversation.rs: UserInputMessage::new, CurrentMessage::new,
\* HistoryUserMessage::new and HistoryAssistantMessage::new, with the
\* content and the origin kept.
UserInputMessage_new(content) == [content |-> content, origin |-> "AI_EDITOR"]
CurrentMessage_new(user_input_message) == [userInputMessage |-> user_input_message]
Message_user(content) ==
    [userInputMessage |-> [content |-> content, origin |-> "AI_EDITOR"]]
Message_assistant(content) == [assistantResponseMessage |-> [content |-> content]]
is_user(message) == "userInputMessage" \in DOMAIN message
is_assistant(message) == "assistantResponseMessage" \in DOMAIN message

\* Step 1: the system text goes in front of the first user message's
\* content, a blank line between them.
RECURSIVE prepend_system(_, _)
prepend_system(messages, system) ==
    IF messages = << >> THEN << >>
    ELSE IF Head(messages).role = "user"
    THEN << [Head(messages) EXCEPT !.content = system \o << 10, 10 >> \o @] >>
            \o Tail(messages)
    ELSE << Head(messages) >> \o prepend_system(Tail(messages), system)

\* Step 5: each historical message becomes one entry of its own role.
convert_history(messages) ==
    [i \in 1 .. Len(messages) |->
        IF messages[i].role = "user" THEN Message_user(messages[i].content)
        ELSE Message_assistant(messages[i].content)]

\* Steps 2 and 3: every message but a final user message is history, a
\* final user message is the current message, and after a final assistant
\* message the current message is an empty user message.
convert_request(req) ==
    LET messages == IF IsSome(req.system)
                    THEN prepend_system(req.messages, Unwrap(req.system))
                    ELSE req.messages
        n == Len(messages)
    IN  IF messages[n].role = "user"
        THEN [currentMessage |-> CurrentMessage_new(UserInputMessage_new(messages[n].content)),
              history |-> convert_history(SubSeq(messages, 1, n - 1))]
        ELSE [currentMessage |-> CurrentMessage_new(UserInputMessage_new(<< >>)),
              history |-> convert_history(messages)]

\* Requests of 1 .. MaxMessages messages of either role, with or without a
\* system prompt.
Roles == {"user", "assistant"}
Contents == {<< 97 >>, << 98 >>}
AnthropicMessages ==
    UNION {[1 .. n -> [role : Roles, content : Contents]] : n \in 1 .. MaxMessages}
Systems == {None, Some(<< 115 >>)}

ConverterInit ==
    /\ FnQuiet
    /\ \E messages \in AnthropicMessages, system \in Systems :
          call = Some([fn |-> "convert_request",
                       req |-> [messages |-> messages, system |-> system]])
    /\ ret = None

ConvertRequest ==
    /\ Called("convert_request")
    /\ ret = None
    /\ ret' = Some(convert_request(Arg.req))
    /\ UNCHANGED << call, notFn >>

ConverterNext == ConvertRequest

SpecConverter == ConverterInit /\ [][ConverterNext]_vars

\* C31: for every request with at least one message the converted
\* conversation has a user message as currentMessage and a history that is
\* empty or ends on an assistant turn; and when the final message is an
\* assistant message, every message is in the history and currentMessage is
\* the empty user message.
C31_HistoryEndsOnAssistant ==
    Returned("convert_request") =>
        LET messages == Arg.req.messages
            history == Ret.history
        IN  /\ DOMAIN Ret.currentMessage = {"userInputMessage"}
            /\ history /= << >> => is_assistant(history[Len(history)])
            /\ messages[Len(messages)].role = "assistant"
                  => /\ Len(history) = Len(messages)
                     /\ Ret.currentMessage.userInputMessage.content = << >>

====
